---------------------------- MODULE Spec2Model ----------------------------
(***************************************************************************)
(* Model of the Flight-Search content filter plugin                        *)
(* (searx/plugins/content_filter.py): rule compilation, query scoring,     *)
(* the background domain-blocklist loader and the per-result suppression   *)
(* filter.                                                                 *)
(*                                                                         *)
(* Text is modelled at character level: a Python str is a sequence of      *)
(* one-character strings, so that the regular expressions of the source    *)
(* (term boundaries, suffixes, anchors, substring tokens) are matched as   *)
(* the re module matches them.                                             *)
(***************************************************************************)
EXTENDS Integers, Sequences, FiniteSets, TLC

(***************************************************************************)
(* Bounds of the model.                                                    *)
(***************************************************************************)
\* longest query, in words of QueryWords, that the scoring specification draws
MaxWords == 3
\* longest query, in words of FilterWords, that a request of the filter specification carries
MaxFilterWords == 2
\* number of blocklist sources fetched by the loader (13 in the source)
NumSources == 3
\* size of the loader's worker pool (6 in the source)
MaxWorkers == 2
\* the limit a bucket dictionary of the rate limiter is used with (10, 30, 60
\* and 120 in the source)
Limit == 2
\* its window, in ticks of the monotonic clock (60 seconds in the source)
Window == 3
\* last reading of the monotonic clock
MaxTime == 4
\* capacity of the response cache of ai_overview (256 in the source)
CACHE_MAX == 1
\* life time of a cached response, in ticks (300 seconds in the source)
CACHE_TTL == 2

(***************************************************************************)
(* Python str operations.                                                  *)
(***************************************************************************)
UpperChars == <<"A","B","C","D","E","F","G","H","I","J","K","L","M",
                "N","O","P","Q","R","S","T","U","V","W","X","Y","Z">>
LowerChars == <<"a","b","c","d","e","f","g","h","i","j","k","l","m",
                "n","o","p","q","r","s","t","u","v","w","x","y","z">>
Digits == {"0","1","2","3","4","5","6","7","8","9"}

\* the characters \s matches, among those the model uses
Whitespace == {" "}

\* the characters \w matches
WordChars ==
    {UpperChars[k] : k \in 1..26} \cup {LowerChars[k] : k \in 1..26}
        \cup Digits \cup {"_"}

LowerOf == [c \in {UpperChars[k] : k \in 1..26} |->
                LowerChars[CHOOSE k \in 1..26 : UpperChars[k] = c]]

LowerChar(c) == IF c \in DOMAIN LowerOf THEN LowerOf[c] ELSE c

\* str.lower()
Lower(s) == <<>> \o [k \in 1..Len(s) |-> LowerChar(s[k])]

\* str.strip()
Strip(s) ==
    LET keep == {k \in 1..Len(s) : s[k] \notin Whitespace}
    IN  IF keep = {} THEN <<>>
        ELSE LET lo == CHOOSE k \in keep : \A m \in keep : k <= m
                 hi == CHOOSE k \in keep : \A m \in keep : m <= k
             IN  SubSeq(s, lo, hi)

\* s.startswith(p)
StartsWith(s, p) == Len(p) <= Len(s) /\ SubSeq(s, 1, Len(p)) = p

\* the least offset k >= 0 with s[k+1 .. k+Len(p)] = p, or -1: str.find(p)
Find(s, p) ==
    LET at == {k \in 0..(Len(s) - Len(p)) : SubSeq(s, k + 1, k + Len(p)) = p}
    IN  IF at = {} THEN -1 ELSE CHOOSE k \in at : \A m \in at : k <= m

\* sep in s
Contains(s, p) == Find(s, p) >= 0

\* s.split(sep, 1)[0] and s.split(sep, 1)[1]
SplitOnceHead(s, sep) ==
    IF Find(s, sep) < 0 THEN s ELSE SubSeq(s, 1, Find(s, sep))
SplitOnceTail(s, sep) ==
    SubSeq(s, Find(s, sep) + Len(sep) + 1, Len(s))

\* s.split(sep): the list of the pieces between the occurrences of sep
RECURSIVE Split(_, _)
Split(s, sep) ==
    IF Find(s, sep) < 0 THEN <<s>>
    ELSE <<SplitOnceHead(s, sep)>> \o Split(SplitOnceTail(s, sep), sep)

\* sep.join(parts)
RECURSIVE Join(_, _)
Join(parts, sep) ==
    IF parts = <<>> THEN <<>>
    ELSE IF Len(parts) = 1 THEN parts[1]
    ELSE parts[1] \o sep \o Join(Tail(parts), sep)

(***************************************************************************)
(* Regular expressions, as the re module matches them.  A pattern is a     *)
(* tree; Ends(re, s, i) is the set of offsets at which a match of re that  *)
(* starts at offset i of s can end, so that Search is pattern.search(s).   *)
(***************************************************************************)
Lit(v)  == [t |-> "lit", v |-> v]
Cls(v)  == [t |-> "cls", v |-> v]
Alt(v)  == [t |-> "alt", v |-> v]
Cat(v)  == [t |-> "cat", v |-> v]
Opt(v)  == [t |-> "opt", v |-> v]
Plus(v) == [t |-> "plus", v |-> v]
Bol     == [t |-> "bol"]
Eol     == [t |-> "eol"]
WordB   == [t |-> "wordb"]

IsWordAt(s, k) == k >= 1 /\ k <= Len(s) /\ s[k] \in WordChars

RECURSIVE Ends(_, _, _)
RECURSIVE CatEnds(_, _, _, _)
RECURSIVE PlusEnds(_, _, _)

Ends(re, s, i) ==
    CASE re.t = "lit" ->
            IF i + Len(re.v) <= Len(s) /\ SubSeq(s, i + 1, i + Len(re.v)) = re.v
            THEN {i + Len(re.v)} ELSE {}
      [] re.t = "cls" ->
            IF i < Len(s) /\ s[i + 1] \in re.v THEN {i + 1} ELSE {}
      [] re.t = "bol" -> IF i = 0 THEN {i} ELSE {}
      [] re.t = "eol" -> IF i = Len(s) THEN {i} ELSE {}
      [] re.t = "wordb" ->
            IF IsWordAt(s, i) # IsWordAt(s, i + 1) THEN {i} ELSE {}
      [] re.t = "alt" -> UNION {Ends(re.v[k], s, i) : k \in 1..Len(re.v)}
      [] re.t = "cat" -> CatEnds(re.v, 1, s, {i})
      [] re.t = "opt" -> {i} \cup Ends(re.v, s, i)
      [] re.t = "plus" -> PlusEnds(re.v, s, Ends(re.v, s, i))

\* the parts k.. of a concatenation, started at each offset of `from`
CatEnds(parts, k, s, from) ==
    IF k > Len(parts) \/ from = {} THEN from
    ELSE CatEnds(parts, k + 1, s, UNION {Ends(parts[k], s, j) : j \in from})

\* one or more repetitions: `reached` holds the ends of the repetitions so far
PlusEnds(re, s, reached) ==
    LET more == reached \cup UNION {Ends(re, s, j) : j \in reached}
    IN  IF more = reached THEN reached ELSE PlusEnds(re, s, more)

\* pattern.search(s) is not None, for a pattern compiled with re.IGNORECASE
\* (the patterns of the model are written in lower case)
Search(re, s) ==
    LET folded == Lower(s)
    IN  \E i \in 0..Len(s) : Ends(re, folded, i) # {}


(***************************************************************************)
(* The category table _CATEGORIES, in declaration order.  Every category   *)
(* of the source is present with its risk, reducible flag, label, message  *)
(* and hotline; of its terms and patterns the model keeps a few (the       *)
(* source lists several hundred), in their declared order.                 *)
(***************************************************************************)
CATEGORIES == <<
    [id |-> "weapons",
     terms |-> << <<"g","u","n">>, <<"g","u","n","s">>, <<"g","u","n"," ","s","h","o","p">> >>,
     risk |-> 90, reducible |-> FALSE, label |-> "weapons",
     message |-> "This search was blocked because it relates to: weapons."],
    [id |-> "explosives",
     terms |-> << <<"b","o","m","b">> >>,
     risk |-> 95, reducible |-> FALSE, label |-> "explosives",
     message |-> "This search was blocked because it relates to: dangerous materials."],
    [id |-> "drugs",
     terms |-> << <<"m","e","t","h">> >>,
     risk |-> 90, reducible |-> FALSE, label |-> "drugs",
     message |-> "This search was blocked because it relates to: drugs or controlled substances.",
     hotline |-> "If you or someone you know is struggling with substance use, contact the SAMHSA National Helpline: 1-800-662-4357 (free, confidential, 24/7)."],
    [id |-> "self_harm",
     terms |-> << <<"s","u","i","c","i","d","e">> >>,
     risk |-> 95, reducible |-> FALSE, label |-> "self-harm",
     message |-> "It looks like you or someone you know might be going through a tough time. You are not alone, and there are people who care and want to help.",
     hotline |-> "988 Suicide & Crisis Lifeline: Call or text 988 (available 24/7). Crisis Text Line: Text HOME to 741741."],
    [id |-> "adult_content",
     terms |-> << <<"p","o","r","n">> >>,
     patterns |-> << Cat(<<Lit(<<"s","e","x","y">>), Plus(Cls(Whitespace)),
                           Alt(<<Lit(<<"y","o","g","a">>), Lit(<<"d","a","n","c","e">>)>>), Opt(Lit(<<"s">>))>>) >>,
     risk |-> 90, reducible |-> FALSE, label |-> "adult content",
     message |-> "This search was blocked because it relates to: adult content."],
    [id |-> "violence_gore",
     terms |-> << <<"g","o","r","e">> >>,
     risk |-> 90, reducible |-> FALSE, label |-> "violence",
     message |-> "This search was blocked because it relates to: violence."],
    [id |-> "gambling",
     terms |-> << <<"b","o","v","a","d","a">> >>,
     risk |-> 85, reducible |-> FALSE, label |-> "gambling",
     message |-> "This search was blocked because it relates to: gambling."],
    [id |-> "illegal_activities",
     terms |-> << <<"c","a","r","d","i","n","g">> >>,
     risk |-> 90, reducible |-> FALSE, label |-> "illegal activity",
     message |-> "This search was blocked because it relates to: illegal activities."],
    [id |-> "hate_speech",
     terms |-> << <<"k","k","k">> >>,
     risk |-> 90, reducible |-> FALSE, label |-> "hate speech",
     message |-> "This search was blocked because it relates to: hateful content."],
    [id |-> "tobacco_alcohol",
     terms |-> << <<"b","u","y"," ","v","a","p","e">> >>,
     risk |-> 85, reducible |-> FALSE, label |-> "tobacco or alcohol",
     message |-> "This search was blocked because it relates to: age-restricted products."],
    [id |-> "proxies",
     terms |-> << <<"c","r","o","x","y">> >>,
     patterns |-> << Cat(<<Alt(<<Bol, Cls(Whitespace)>>), Lit(<<"p","o","r","x","y">>),
                           Alt(<<Cls(Whitespace), Eol>>)>>),
                     Cat(<<Bol, Lit(<<"p","r","o","x","y">>), Eol>>) >>,
     risk |-> 80, reducible |-> FALSE, label |-> "filter circumvention",
     message |-> "This search was blocked because it relates to: proxy or filter circumvention tools."],
    [id |-> "domestic_violence",
     terms |-> << <<"d","o","m","e","s","t","i","c"," ","a","b","u","s","e">> >>,
     risk |-> 90, reducible |-> TRUE, label |-> "domestic violence",
     message |-> "If you or someone you know is in a dangerous situation, help is available right now.",
     hotline |-> "National Domestic Violence Hotline: 1-800-799-7233 (24/7, free, confidential). If you are in immediate danger, call 911."],
    [id |-> "sexual_assault",
     terms |-> << <<"r","a","p","e">> >>,
     risk |-> 95, reducible |-> FALSE, label |-> "sexual assault",
     message |-> "If you or someone you know has been affected, confidential help is available.",
     hotline |-> "RAINN National Sexual Assault Hotline: 1-800-656-4673 (24/7, free, confidential). If you are in immediate danger, call 911."],
    [id |-> "child_abuse",
     terms |-> << <<"c","s","a","m">> >>,
     risk |-> 100, reducible |-> FALSE, label |-> "child safety",
     message |-> "If you or someone you know is being hurt, please reach out for help right now.",
     hotline |-> "Childhelp National Child Abuse Hotline: 1-800-422-4453 (24/7). If you are in immediate danger, call 911."],
    [id |-> "emergency",
     terms |-> << <<"p","l","e","a","s","e"," ","h","e","l","p"," ","m","e">> >>,
     risk |-> 100, reducible |-> FALSE, label |-> "emergency",
     message |-> "If you are in danger or need emergency help:",
     hotline |-> "Call 911 (or your local emergency number) immediately. 988 Suicide & Crisis Lifeline: Call or text 988. Crisis Text Line: Text HOME to 741741."],
    [id |-> "gaming_distraction",
     terms |-> << <<"p","o","k","i">> >>,
     risk |-> 65, reducible |-> TRUE, label |-> "gaming distraction",
     message |-> "Some results were filtered because they relate to: gaming or distraction sites."],
    [id |-> "social_media",
     terms |-> << <<"t","i","k","t","o","k"," ","w","e","b">> >>,
     risk |-> 60, reducible |-> TRUE, label |-> "social media bypass",
     message |-> "Some results were filtered because they relate to: social media bypass tools."],
    [id |-> "cheating_academic",
     terms |-> << <<"b","u","y"," ","e","s","s","a","y">>, <<"a","n","s","w","e","r"," ","k","e","y">> >>,
     risk |-> 55, reducible |-> TRUE, label |-> "academic dishonesty",
     message |-> "Some results were filtered because they relate to: academic dishonesty."],
    [id |-> "piracy",
     terms |-> << <<"k","e","y","g","e","n">> >>,
     risk |-> 60, reducible |-> FALSE, label |-> "piracy",
     message |-> "Some results were filtered because they relate to: piracy or copyright infringement."],
    [id |-> "vpn_circumvention",
     terms |-> << <<"f","r","e","e"," ","v","p","n">> >>,
     risk |-> 60, reducible |-> TRUE, label |-> "filter circumvention",
     message |-> "Some results were filtered because they relate to: network filter circumvention."]
>>

\* entry.get(key, default)
Get(entry, key, default) == IF key \in DOMAIN entry THEN entry[key] ELSE default

(***************************************************************************)
(* The educational-context patterns and the mitigation constants.          *)
(***************************************************************************)
Spaces == Plus(Cls(Whitespace))

EDUCATIONAL_PREFIXES == <<
    Cat(<<Bol, Alt(<<Lit(<<"h","i","s","t","o","r","y">>), Cat(<<Lit(<<"o","r","i","g","i","n">>), Opt(Lit(<<"s">>))>>),
                     Lit(<<"e","v","o","l","u","t","i","o","n">>), Lit(<<"t","i","m","e","l","i","n","e">>)>>),
          Spaces, Alt(<<Lit(<<"o","f">>), Lit(<<"b","e","h","i","n","d">>)>>), WordB>>),
    Cat(<<Bol, Lit(<<"w","h","a","t">>), Spaces,
          Alt(<<Lit(<<"i","s">>), Lit(<<"a","r","e">>), Lit(<<"w","a","s">>), Lit(<<"w","e","r","e">>)>>), WordB>>),
    Cat(<<Bol, Alt(<<Cat(<<Lit(<<"e","f","f","e","c","t">>), Opt(Lit(<<"s">>))>>), Lit(<<"i","m","p","a","c","t">>),
                     Cat(<<Lit(<<"c","o","n","s","e","q","u","e","n","c","e">>), Opt(Lit(<<"s">>))>>),
                     Cat(<<Lit(<<"d","a","n","g","e","r">>), Opt(Lit(<<"s">>))>>)>>),
          Spaces, Lit(<<"o","f">>), WordB>>),
    Cat(<<Bol, Alt(<<Lit(<<"s","c","i","e","n","c","e">>), Lit(<<"c","h","e","m","i","s","t","r","y">>), Lit(<<"p","h","y","s","i","c","s">>),
                     Lit(<<"b","i","o","l","o","g","y">>)>>),
          Spaces, Alt(<<Lit(<<"o","f">>), Lit(<<"b","e","h","i","n","d">>)>>), WordB>>),
    Cat(<<Bol, Lit(<<"h","o","w">>), Spaces, Lit(<<"d","o","e">>), Opt(Lit(<<"s">>)), Spaces,
          Plus(Cls(WordChars)), Spaces, Lit(<<"w","o","r","k">>), WordB>>),
    Cat(<<Bol, Lit(<<"w","h","y">>), Spaces,
          Alt(<<Lit(<<"i","s">>), Lit(<<"a","r","e">>), Lit(<<"d","o">>), Lit(<<"d","o","e","s">>), Lit(<<"d","i","d">>),
                Lit(<<"w","a","s">>), Lit(<<"w","e","r","e">>)>>), WordB>>),
    Cat(<<WordB, Alt(<<Cat(<<Lit(<<"f","o","r">>), Spaces, Lit(<<"k","i","d","s">>)>>),
                       Cat(<<Lit(<<"f","o","r">>), Spaces, Lit(<<"s","t","u","d","e","n","t","s">>)>>),
                       Cat(<<Lit(<<"f","o","r">>), Spaces, Lit(<<"s","c","h","o","o","l">>)>>),
                       Lit(<<"h","o","m","e","w","o","r","k">>), Lit(<<"e","s","s","a","y">>), Lit(<<"r","e","p","o","r","t">>),
                       Lit(<<"p","r","o","j","e","c","t">>)>>), WordB>>),
    Cat(<<WordB, Alt(<<Lit(<<"d","e","f","i","n","i","t","i","o","n">>), Lit(<<"m","e","a","n","i","n","g">>), Lit(<<"e","x","p","l","a","i","n","e","d">>),
                       Lit(<<"o","v","e","r","v","i","e","w">>), Lit(<<"s","u","m","m","a","r","y">>)>>), WordB>>)
>>

EDUCATIONAL_SCORE_REDUCTION == 30

NEVER_REDUCE ==
    {"self_harm", "adult_content", "sexual_assault", "child_abuse",
     "proxies", "illegal_activities", "emergency"}

HasEducationalContext(query) ==
    \E k \in 1..Len(EDUCATIONAL_PREFIXES) : Search(EDUCATIONAL_PREFIXES[k], query)

(***************************************************************************)
(* _compile_rules: one rule per term, then one per pattern, category by    *)
(* category.                                                               *)
(***************************************************************************)
\* the separator class of the term pattern: [\s\-_/,;.!?"']
TermSeparators == Whitespace \cup {"-", "_", "/", ",", ";", ".", "!", "?", "\"", "'"}

\* the pattern _compile_rules builds around re.escape(term)
TermPattern(term) ==
    Cat(<<Alt(<<Bol, Cls(TermSeparators)>>),
          Lit(term),
          Alt(<<Cls(TermSeparators), Eol, Lit(<<"s">>), Lit(<<"e","s">>), Lit(<<"i","n","g">>),
                Lit(<<"e","d">>)>>)>>)

RuleOf(pat, entry) ==
    [pattern |-> pat, risk |-> entry.risk, label |-> entry.label,
     message |-> entry.message, hotline |-> Get(entry, "hotline", ""),
     cat |-> entry.id]

PatternsBeforeTerms(entry) ==
    [k \in 1..Len(Get(entry, "patterns", <<>>)) |->
            RuleOf(Get(entry, "patterns", <<>>)[k], entry)]
        \o [k \in 1..Len(entry.terms) |-> RuleOf(TermPattern(entry.terms[k]), entry)]

\* the rules one category appends: its terms, then its patterns
CategoryRules(entry) ==
    [k \in 1..Len(entry.terms) |-> RuleOf(TermPattern(entry.terms[k]), entry)]
        \o [k \in 1..Len(Get(entry, "patterns", <<>>)) |->
                RuleOf(Get(entry, "patterns", <<>>)[k], entry)]

RECURSIVE CompileRules(_, _)
CompileRules(cats, k) ==
    IF k > Len(cats) THEN <<>>
    ELSE CategoryRules(cats[k]) \o CompileRules(cats, k + 1)

\* what _compile_rules(), called once when the module is imported, leaves in
\* the module-level list _BLOCK_RULES
BLOCK_RULES == CompileRules(CATEGORIES, 1)

VARIABLE
    block_rules         \* the module-level list _BLOCK_RULES

rulesVars == <<block_rules>>

\* the list when the import of the module is over
RulesInit == block_rules = BLOCK_RULES

(***************************************************************************)
(* _score_query                                                            *)
(***************************************************************************)
ReplacesAlways(risk, top_risk) == TRUE

ReplacesOnTies(risk, top_risk) == risk >= top_risk

NoVerdictLabelled ==
    [risk |-> 0, label |-> "none", message |-> "", hotline |-> "", cat |-> ""]

\* top_risk, top_label, top_message, top_hotline, top_cat before the loop, and
\* the verdict returned when no rule matched
EmptyVerdict == [risk |-> 0, label |-> "", message |-> "", hotline |-> "", cat |-> ""]

\* the comparison that lets a matching rule replace the current top
Replaces(risk, top_risk) == risk > top_risk

\* the loop over _BLOCK_RULES: `top` after the rules k.. have been tried
RECURSIVE ScoreLoop(_, _, _)
ScoreLoop(query_lower, k, top) ==
    IF k > Len(block_rules) THEN top
    ELSE LET rule == block_rules[k]
         IN  IF Search(rule.pattern, query_lower) /\ Replaces(rule.risk, top.risk)
             THEN ScoreLoop(query_lower, k + 1,
                            [risk |-> rule.risk, label |-> rule.label,
                             message |-> rule.message, hotline |-> rule.hotline,
                             cat |-> rule.cat])
             ELSE ScoreLoop(query_lower, k + 1, top)

MinInsteadOfMax(a, b) == IF a <= b THEN a ELSE b

Max(a, b) == IF a >= b THEN a ELSE b

MitigatedWhateverCategory(top, query_lower) == HasEducationalContext(query_lower)

\* the "reducible" mark of the category `cat` in _CATEGORIES
Reducible(cat) ==
    \E c \in 1..Len(CATEGORIES) : CATEGORIES[c].id = cat /\ CATEGORIES[c].reducible

MitigatedOnlyIfReducible(top, query_lower) ==
    Reducible(top.cat) /\ HasEducationalContext(query_lower)

\* whether the verdict of the winning category is reduced for an educational query
Mitigated(top, query_lower) ==
    top.cat \notin NEVER_REDUCE /\ HasEducationalContext(query_lower)

ScoreQuery(query) ==
    LET query_lower == Lower(query)
        top == ScoreLoop(query_lower, 1, EmptyVerdict)
    IN  IF top.risk = 0 THEN EmptyVerdict
        ELSE IF Mitigated(top, query_lower)
        THEN [top EXCEPT !.risk = Max(0, top.risk - EDUCATIONAL_SCORE_REDUCTION)]
        ELSE top

(***************************************************************************)
(* Python values: None and object attributes that may be unset.            *)
(* An optional value is the empty tuple (None, or no such attribute) or a  *)
(* one-element tuple holding the value.                                    *)
(***************************************************************************)
NoneVal == <<>>
Some(v) == <<v>>

\* getattr(obj, name, default) of an attribute slot
GetAttr(slot, default) == IF slot = NoneVal THEN default ELSE slot[1]

\* bool(val) of an optional string: None and "" are falsy
Truthy(val) == val # NoneVal /\ val[1] # <<>>

(***************************************************************************)
(* The blocklist sources.  The text each URL serves, line by line; the     *)
(* source fetches 13 lists, the model NumSources lists of one or two lines.*)
(***************************************************************************)
SourceTexts == <<
    << <<"#"," ","a","d","s">> >>,
    << <<" ","B","a","d",".","C","o","m"," ">> >>,
    << <<"e","v","i","l",".","e","x",".","c","o","m">>, <<"l","o","c","a","l","h","o","s","t">> >>
>>

Sources == 1..NumSources

\* the lines that _BLOCKLIST_URLS[s] serves
SourceLines(s) == SourceTexts[((s - 1) % Len(SourceTexts)) + 1]

\* raw_line.decode("utf-8", errors="ignore").strip().lower()
DecodeLine(raw_line) == Lower(Strip(raw_line))

\* the test that keeps a line of a list
KeepLine(line) ==
    /\ line # <<>>
    /\ ~StartsWith(line, <<"#">>)
    /\ ~StartsWith(line, <<"!">>)

\* `domains` after one more raw line was read
AddLine(domains, raw_line) ==
    IF KeepLine(DecodeLine(raw_line))
    THEN domains \cup {DecodeLine(raw_line)}
    ELSE domains

FutureRaisesOnFailure(failed) == failed

WhileMergingInPlace(global_set, result) == global_set \cup result

WhileMergingReplaces(global_set, result) == result

\* what a call of _fetch_single_list returns when it ends with `domains` read,
\* whether or not the except clause ran
FetchResult(domains, failed) == domains

\* whether future.result() raises in the loader: the except clause of
\* _fetch_single_list swallows every Exception of the fetch
FutureRaises(failed) == FALSE

\* the value of the global _blocked_domains while the loader merges a result
\* into its local set: the global is not touched before line 522
WhileMerging(global_set, result) == global_set

\* the domains of source s when its fetch reads every line
SourceDomains(s) ==
    {d \in {DecodeLine(SourceLines(s)[k]) : k \in 1..Len(SourceLines(s))} : KeepLine(d)}

(***************************************************************************)
(* _extract_host and the URL token pattern.                                *)
(***************************************************************************)
HostOfSchemelessUrl(url) ==
    Lower(Split(SplitOnceHead(IF Contains(url, <<":","/","/">>) THEN SplitOnceTail(url, <<":","/","/">>) ELSE url,
                              <<"/">>), <<":">>)[1])

ExtractHost(url) ==
    IF ~Contains(url, <<":","/","/">>) THEN <<>>
    ELSE Lower(Split(SplitOnceHead(SplitOnceTail(url, <<":","/","/">>), <<"/">>), <<":">>)[1])

\* [-_ ]?
JoinerOpt == Opt(Cls({"-", "_", " "}))

UNSAFE_URL_TOKENS == Alt(<<
    Lit(<<"p","o","r","n">>), Lit(<<"x","x","x">>), Lit(<<"n","s","f","w">>), Lit(<<"n","u","d","e">>), Lit(<<"n","a","k","e","d">>),
    Lit(<<"h","e","n","t","a","i">>), Lit(<<"g","o","r","e">>), Lit(<<"s","n","u","f","f">>), Lit(<<"f","e","t","i","s","h">>), Lit(<<"e","s","c","o","r","t">>),
    Lit(<<"s","e","x","y">>), Lit(<<"b","o","o","b">>), Lit(<<"t","i","t">>),
    Lit(<<"c","a","m","g","i","r","l">>), Cat(<<Lit(<<"w","e","b","c","a","m">>), JoinerOpt, Lit(<<"g","i","r","l">>)>>),
    Cat(<<Lit(<<"s","t","r","i","p">>), JoinerOpt, Lit(<<"c","l","u","b">>)>>), Lit(<<"t","o","p","l","e","s","s">>),
    Lit(<<"s","h","i","r","t","l","e","s","s">>),
    Lit(<<"d","a","r","k","n","e","t">>), Cat(<<Lit(<<"d","a","r","k">>), JoinerOpt, Lit(<<"w","e","b">>)>>),
    Lit(<<"t","o","r","r","e","n","t">>), Lit(<<"w","a","r","e","z">>),
    Cat(<<Lit(<<"c","r","a","c","k">>), JoinerOpt, Lit(<<"d","o","w","n","l","o","a","d">>)>>),
    Cat(<<Lit(<<"p","r","o","x","y">>), JoinerOpt, Lit(<<"u","n","b","l","o","c","k","e","r">>)>>),
    Cat(<<Lit(<<"u","n","b","l","o","c","k">>), JoinerOpt, Lit(<<"s","i","t","e">>)>>),
    Cat(<<Lit(<<"b","y","p","a","s","s">>), JoinerOpt, Lit(<<"f","i","l","t","e","r">>)>>),
    Lit(<<"m","a","s","t","u","r","b","a","t">>), Lit(<<"b","l","o","w","j","o","b">>), Lit(<<"h","a","n","d","j","o","b">>), Lit(<<"o","r","g","a","s","m">>),
    Lit(<<"v","i","b","r","a","t","o","r">>), Lit(<<"d","i","l","d","o">>), Lit(<<"l","i","n","g","e","r","i","e">>), Lit(<<"t","h","o","n","g">>)
>>)

(***************************************************************************)
(* spell_check: _levenshtein, _norm and _try_word_correction.              *)
(***************************************************************************)
\* str.split(): the words between the runs of whitespace
RECURSIVE SplitWords(_)
SplitWords(s) ==
    LET t == Strip(s)
        gaps == {k \in 1..Len(t) : t[k] \in Whitespace}
    IN  IF t = <<>> THEN <<>>
        ELSE IF gaps = {} THEN <<t>>
        ELSE LET k == CHOOSE m \in gaps : \A n \in gaps : m <= n
             IN  <<SubSeq(t, 1, k - 1)>> \o SplitWords(SubSeq(t, k + 1, Len(t)))

Min(a, b) == IF a <= b THEN a ELSE b

\* the row `curr` of _levenshtein for the character ca, from column j on
RECURSIVE LevenshteinRow(_, _, _, _, _)
LevenshteinRow(ca, b, prev, j, curr) ==
    IF j > Len(b) THEN curr
    ELSE LevenshteinRow(ca, b, prev, j + 1,
            Append(curr, Min(Min(prev[j + 1] + 1, curr[j] + 1),
                             prev[j] + (IF ca # b[j] THEN 1 ELSE 0))))

\* the loop of _levenshtein over the characters i.. of a
RECURSIVE LevenshteinLoop(_, _, _, _)
LevenshteinLoop(a, b, i, prev) ==
    IF i > Len(a) THEN prev
    ELSE LevenshteinLoop(a, b, i + 1, LevenshteinRow(a[i], b, prev, 1, <<i>>))

Levenshtein(a, b) ==
    LET long == IF Len(a) < Len(b) THEN b ELSE a
        short == IF Len(a) < Len(b) THEN a ELSE b
    IN  IF short = <<>> THEN Len(long)
        ELSE LevenshteinLoop(long, short, 1,
                             <<>> \o [j \in 1..(Len(short) + 1) |-> j - 1])[Len(short) + 1]

\* " ".join(s.lower().split())
Norm(s) == Join(SplitWords(Lower(s)), <<" ">>)

\* _norm(suggestion).split() of every suggestion
SugWords(suggestions) ==
    <<>> \o [k \in 1..Len(suggestions) |-> SplitWords(Norm(suggestions[k]))]

\* the suggestions that are not skipped and vote at position i
Voters(orig_words, sug_words, i) ==
    {k \in 1..Len(sug_words) :
        Len(sug_words[k]) = Len(orig_words) /\ sug_words[k][i] # orig_words[i]}

\* the keys of `votes`
VotePositions(orig_words, sug_words) ==
    {i \in 1..Len(orig_words) : Voters(orig_words, sug_words, i) # {}}

\* candidates[sw] for the word sw of voter k
VoteCount(sug_words, voters, pos, k) ==
    Cardinality({m \in voters : sug_words[m][pos] = sug_words[k][pos]})

\* voter k is the one that inserted its word into `candidates`
Inserted(sug_words, voters, pos, k) ==
    \A m \in voters : sug_words[m][pos] = sug_words[k][pos] => k <= m

\* max(candidates, key=candidates.get): the first inserted of the candidates
\* with the most votes, as the voter that inserted it
BestVoter(sug_words, voters, pos) ==
    CHOOSE k \in voters :
        /\ Inserted(sug_words, voters, pos, k)
        /\ \A m \in voters :
              \/ VoteCount(sug_words, voters, pos, m) < VoteCount(sug_words, voters, pos, k)
              \/ /\ VoteCount(sug_words, voters, pos, m) = VoteCount(sug_words, voters, pos, k)
                 /\ (Inserted(sug_words, voters, pos, m) => k <= m)

\* " ".join(corrected_words) after the replacement at pos
Replaced(original, pos, best_replacement) ==
    LET corrected_words == SplitWords(original)
    IN  Join(IF pos <= Len(corrected_words)
             THEN [corrected_words EXCEPT ![pos] = best_replacement]
             ELSE corrected_words, <<" ">>)

\* _try_word_correction from `pos, candidates = next(iter(votes.items()))` on
VotedCorrection(original, orig_words, sug_words, pos) ==
    LET voters == Voters(orig_words, sug_words, pos)
        best == BestVoter(sug_words, voters, pos)
        max_allowed == Min(2, Max(1, Len(orig_words[pos]) \div 4))
    IN  IF VoteCount(sug_words, voters, pos, best) < 2 THEN NoneVal
        ELSE IF Levenshtein(orig_words[pos], sug_words[best][pos]) > max_allowed
        THEN NoneVal
        ELSE Some(Replaced(original, pos, sug_words[best][pos]))

TryWordCorrection(original, suggestions) ==
    LET orig_words == SplitWords(Norm(original))
        positions == VotePositions(orig_words, SugWords(suggestions))
    IN  IF orig_words = <<>> THEN NoneVal
        ELSE IF Cardinality(positions) # 1 THEN NoneVal
        ELSE VotedCorrection(original, orig_words, SugWords(suggestions),
                             CHOOSE i \in positions : TRUE)

(***************************************************************************)
(* The sliding-window limiter: _check_limit of anti_abuse and its copy     *)
(* _is_rate_limited of ai_overview.                                        *)
(***************************************************************************)
\* the client keys
Ips == {"10.0.0.1", "10.0.0.2"}

FreshOneTickLess(bucket, cutoff) == SelectSeq(bucket, LAMBDA ts : ts > cutoff + 1)

\* [ts for ts in bucket if ts > cutoff]
Fresh(bucket, cutoff) == SelectSeq(bucket, LAMBDA ts : ts > cutoff)

\* one call at clock reading t: the bucket it leaves and what it returns
CheckLimit(bucket, t, limit, window) ==
    LET kept == Fresh(bucket, t - window)
    IN  IF Len(kept) >= limit
        THEN [bucket |-> kept, limited |-> TRUE]
        ELSE [bucket |-> Append(kept, t), limited |-> FALSE]

(***************************************************************************)
(* The response cache of ai_overview: an OrderedDict, here the sequence of *)
(* its items, oldest first.                                                *)
(***************************************************************************)
\* the position of `key` in the cache, or 0
CacheIndex(cache, key) ==
    IF \E k \in 1..Len(cache) : cache[k].key = key
    THEN CHOOSE k \in 1..Len(cache) : cache[k].key = key
    ELSE 0

\* the cache without its item at position k
WithoutItem(cache, k) == SubSeq(cache, 1, k - 1) \o SubSeq(cache, k + 1, Len(cache))

\* _get_cached(key) at clock reading t: the cache it leaves and what it returns
GetCached(cache, key, t) ==
    LET k == CacheIndex(cache, key)
    IN  IF k = 0 THEN [cache |-> cache, text |-> NoneVal]
        ELSE IF t - cache[k].ts > CACHE_TTL
        THEN [cache |-> WithoutItem(cache, k), text |-> NoneVal]
        ELSE [cache |-> Append(WithoutItem(cache, k), cache[k]), text |-> Some(cache[k].text)]

\* the loop of _put_cache: popitem(last=False) while the cache is too long
RECURSIVE Evicted(_)
Evicted(cache) == IF Len(cache) > CACHE_MAX THEN Evicted(Tail(cache)) ELSE cache

\* _put_cache(key, text) at clock reading t
PutCache(cache, key, text, t) ==
    LET k == CacheIndex(cache, key)
        item == [key |-> key, ts |-> t, text |-> text]
    IN  Evicted(IF k = 0 THEN Append(cache, item) ELSE [cache EXCEPT ![k] = item])

BlockedFrom80(risk) == risk >= 80

\* the test of _ai_overview that refuses the query
OverviewBlocked(risk) == risk >= 60

(***************************************************************************)
(* The state.                                                              *)
(***************************************************************************)
VARIABLES
    \* the blocklist loader (module state and the loader thread)
    blocked_domains,    \* the global _blocked_domains
    blocklist_ready,    \* whether the Event _blocklist_ready is set
    lpc,                \* where the loader thread is in _load_all_blocklists
    submitted,          \* how many fetches the loader has submitted to the pool
    cur,                \* the future the loader's loop waits for
    merged,             \* the loader's local set `merged`
    fetch,              \* per source: the state of its _fetch_single_list call
    \* one search request
    rpc,                \* where the request is in the plugin pipeline
    hooks,              \* the plugins whose pre_search is still to run
    query,              \* search.search_query.query
    scored,             \* the argument of the request's _score_query call
    g,                  \* the attributes of flask.g the plugins set
    request,            \* the attributes of the request the filter sets
    pre_ret,            \* what pre_search returned
    result,             \* the result on_result was called with
    call,               \* the frame of the running _is_domain_blocked call
    on_ret,             \* what on_result returned
    answers,            \* what post_search returned
    \* a direct call of _score_query
    score_arg,          \* its argument
    score_ret,          \* what it returned
    \* the rate limiter
    now,                \* the reading of time.monotonic()
    buckets,            \* one bucket dictionary: per key, its list of timestamps
    admitted,           \* per key, the timestamps of the calls that returned False
    limited,            \* the key and the return value of the last call
    \* the AI overview endpoint
    apc,                \* where the endpoint is with its request
    areq,               \* the request: the "q" of its body and the client's address
    aresp,              \* the response: its status and what it carries
    trace,              \* whether this request looked up the cache, called the
                        \* provider, wrote the cache
    response_cache      \* the global _response_cache

loaderVars == <<blocked_domains, blocklist_ready, lpc, submitted, cur, merged, fetch>>
requestVars ==
    <<rpc, hooks, query, scored, g, request, pre_ret, result, call, on_ret, answers>>
scoreVars == <<score_arg, score_ret>>
limiterVars == <<now, buckets, admitted, limited>>
overviewVars == <<apc, areq, aresp, trace, response_cache>>
vars == <<loaderVars, requestVars, scoreVars, rulesVars, limiterVars, overviewVars>>

(***************************************************************************)
(* The blocklist loader: _load_all_blocklists on its thread and the        *)
(* _fetch_single_list calls on the pool's workers.                         *)
(***************************************************************************)
NewFetch == [st |-> "unsubmitted", pos |-> 0, domains |-> {}, failed |-> FALSE,
             ret |-> {}]

LoaderInit ==
    /\ blocked_domains = {}
    /\ blocklist_ready = FALSE
    /\ lpc = "submit"
    /\ submitted = 0
    /\ cur = 1
    /\ merged = {}
    /\ fetch = [s \in Sources |-> NewFetch]

\* the state after a load in which every fetch read its whole list
LoaderLoaded ==
    /\ blocked_domains = UNION {SourceDomains(s) : s \in Sources}
    /\ blocklist_ready = TRUE
    /\ lpc = "done"
    /\ submitted = NumSources
    /\ cur = NumSources + 1
    /\ merged = UNION {SourceDomains(s) : s \in Sources}
    /\ fetch = [s \in Sources |->
                  [st |-> "done", pos |-> Len(SourceLines(s)),
                   domains |-> SourceDomains(s), failed |-> FALSE,
                   ret |-> SourceDomains(s)]]

Running == {s \in Sources : fetch[s].st = "running"}

\* pool.submit(_fetch_single_list, u), for the next URL of _BLOCKLIST_URLS
Submit ==
    /\ lpc = "submit"
    /\ submitted' = submitted + 1
    /\ fetch' = [fetch EXCEPT ![submitted + 1].st = "queued"]
    /\ lpc' = IF submitted + 1 = NumSources THEN "collect" ELSE "submit"
    /\ UNCHANGED <<blocked_domains, blocklist_ready, cur, merged>>
    /\ UNCHANGED <<requestVars, scoreVars, rulesVars, limiterVars, overviewVars>>

\* a free worker of the pool takes the oldest queued fetch
WorkerStart(s) ==
    /\ fetch[s].st = "queued"
    /\ \A o \in Sources : fetch[o].st = "queued" => s <= o
    /\ Cardinality(Running) < MaxWorkers
    /\ fetch' = [fetch EXCEPT ![s].st = "running"]
    /\ UNCHANGED <<blocked_domains, blocklist_ready, lpc, submitted, cur, merged>>
    /\ UNCHANGED <<requestVars, scoreVars, rulesVars, limiterVars, overviewVars>>

\* one turn of `for raw_line in resp`
FetchLine(s) ==
    /\ fetch[s].st = "running"
    /\ fetch[s].pos < Len(SourceLines(s))
    /\ fetch' = [fetch EXCEPT
                   ![s].pos = @ + 1,
                   ![s].domains = AddLine(@, SourceLines(s)[fetch[s].pos + 1])]
    /\ UNCHANGED <<blocked_domains, blocklist_ready, lpc, submitted, cur, merged>>
    /\ UNCHANGED <<requestVars, scoreVars, rulesVars, limiterVars, overviewVars>>

\* the request, the connection or a read fails or times out: the except
\* clause logs the warning and the call returns
FetchFail(s) ==
    /\ fetch[s].st = "running"
    /\ fetch' = [fetch EXCEPT
                   ![s].st = "done",
                   ![s].failed = TRUE,
                   ![s].ret = FetchResult(fetch[s].domains, TRUE)]
    /\ UNCHANGED <<blocked_domains, blocklist_ready, lpc, submitted, cur, merged>>
    /\ UNCHANGED <<requestVars, scoreVars, rulesVars, limiterVars, overviewVars>>

\* the response is exhausted and the call returns
FetchReturn(s) ==
    /\ fetch[s].st = "running"
    /\ fetch[s].pos = Len(SourceLines(s))
    /\ fetch' = [fetch EXCEPT
                   ![s].st = "done",
                   ![s].ret = FetchResult(fetch[s].domains, FALSE)]
    /\ UNCHANGED <<blocked_domains, blocklist_ready, lpc, submitted, cur, merged>>
    /\ UNCHANGED <<requestVars, scoreVars, rulesVars, limiterVars, overviewVars>>

\* merged.update(future.result()), once the future is done
Collect ==
    /\ lpc = "collect"
    /\ fetch[cur].st = "done"
    /\ IF FutureRaises(fetch[cur].failed)
       THEN /\ lpc' = "raised"
            /\ UNCHANGED <<merged, cur, blocked_domains>>
       ELSE /\ merged' = merged \cup fetch[cur].ret
            /\ blocked_domains' = WhileMerging(blocked_domains, fetch[cur].ret)
            /\ cur' = cur + 1
            /\ lpc' = IF cur = NumSources THEN "publish" ELSE "collect"
    /\ UNCHANGED <<blocklist_ready, submitted, fetch>>
    /\ UNCHANGED <<requestVars, scoreVars, rulesVars, limiterVars, overviewVars>>

\* _blocked_domains = merged
Publish ==
    /\ lpc = "publish"
    /\ blocked_domains' = merged
    /\ lpc' = "signal"
    /\ UNCHANGED <<blocklist_ready, submitted, cur, merged, fetch>>
    /\ UNCHANGED <<requestVars, scoreVars, rulesVars, limiterVars, overviewVars>>

\* _blocklist_ready.set()
Signal ==
    /\ lpc = "signal"
    /\ blocklist_ready' = TRUE
    /\ lpc' = "done"
    /\ UNCHANGED <<blocked_domains, submitted, cur, merged, fetch>>
    /\ UNCHANGED <<requestVars, scoreVars, rulesVars, limiterVars, overviewVars>>

Loader ==
    \/ Submit
    \/ \E s \in Sources : WorkerStart(s)
    \/ \E s \in Sources : FetchLine(s)
    \/ \E s \in Sources : FetchFail(s)
    \/ \E s \in Sources : FetchReturn(s)
    \/ Collect
    \/ Publish
    \/ Signal

(***************************************************************************)
(* _is_domain_blocked.  The loop reads the global _blocked_domains once    *)
(* per suffix, so a call is a sequence of steps the loader can interleave  *)
(* with; DomainBlockedIn is the value of a call that reads one set         *)
(* throughout.                                                             *)
(***************************************************************************)
SuffixOffByOne(parts, i) == Join(SubSeq(parts, i + 2, Len(parts)), <<".">>)

\* ".".join(parts[i:])
Suffix(parts, i) == Join(SubSeq(parts, i + 1, Len(parts)), <<".">>)

SuffixStartsWithTopLevel(parts) == 0..(Len(parts) - 1)

\* range(len(parts) - 1)
SuffixStarts(parts) == 0..(Len(parts) - 2)

WaitsUntilReady(ready) == ~ready

\* whether a request waits for the loader before it reads _blocked_domains:
\* neither on_result nor _is_domain_blocked calls _blocklist_ready.wait() or
\* takes a lock
WaitsForLoader(ready) == FALSE

DomainBlockedIn(host, domains) ==
    /\ host # <<>>
    /\ \E i \in SuffixStarts(Split(host, <<".">>)) :
            Suffix(Split(host, <<".">>), i) \in domains

\* whether the loader has executed `_blocked_domains = merged`
Published == lpc \in {"signal", "done"}

\* no call of _is_domain_blocked is running
NoCall == [host |-> <<>>, parts |-> <<>>, i |-> 0, seen |-> {},
           published_before |-> FALSE, blocked |-> NoneVal, ready_at_return |-> FALSE]

(***************************************************************************)
(* on_result, after the domain check.                                      *)
(***************************************************************************)
ResultKeys == <<"title", "url", "content", "parsed_url", "img_src", "thumbnail">>

\* result.get("url", "") or ""
UrlOf(res) ==
    IF Truthy(Get(res, "url", Some(<<>>))) THEN Get(res, "url", Some(<<>>))[1] ELSE <<>>

\* text_parts, for the keys k..
RECURSIVE TextParts(_, _)
TextParts(res, k) ==
    IF k > Len(ResultKeys) THEN <<>>
    ELSE IF Truthy(Get(res, ResultKeys[k], NoneVal))
    THEN <<Lower(Get(res, ResultKeys[k], NoneVal)[1])>> \o TextParts(res, k + 1)
    ELSE TextParts(res, k + 1)

Searchable(res) == Join(TextParts(res, 1), <<" ">>)

ThresholdAlwaysZero(risk) == 0

ThresholdBranchesSwapped(risk) == IF risk >= 60 THEN 0 ELSE (IF risk >= 30 THEN 80 ELSE risk)

ThresholdIsTheRisk(risk) == IF risk >= 30 THEN risk ELSE 80

Threshold(risk) == IF risk >= 60 THEN 0 ELSE IF risk >= 30 THEN risk ELSE 80

RulesApplyAlways(risk) == TRUE

\* whether the query's risk enables the rule scan at all
RulesApply(risk) == ~(risk <= 0)

\* the scan of _BLOCK_RULES over the searchable text
RuleSuppresses(searchable, threshold) ==
    \E k \in 1..Len(block_rules) :
        /\ block_rules[k].risk >= threshold
        /\ Search(block_rules[k].pattern, searchable)

\* what on_result returns once _is_domain_blocked(host) has returned False
OnResultTail(res, risk) ==
    IF Search(UNSAFE_URL_TOKENS, Lower(UrlOf(res))) THEN FALSE
    ELSE IF ~RulesApply(risk) THEN TRUE
    ELSE IF Searchable(res) = <<>> THEN TRUE
    ELSE ~RuleSuppresses(Searchable(res), Threshold(risk))

(***************************************************************************)
(* The request pipeline: pre_search, then on_result for each result of     *)
(* the executed search, then post_search.                                  *)
(***************************************************************************)
NewG ==
    [risk_score |-> NoneVal, risk_label |-> NoneVal, content_blocked |-> NoneVal,
     spell_original |-> NoneVal, spell_corrected |-> NoneVal]
NewRequestAttrs ==
    [blocked_message |-> NoneVal, blocked_hotline |-> NoneVal, blocked_label |-> NoneVal]

RequestInit ==
    /\ rpc = "idle"
    /\ hooks = <<>>
    /\ query = <<>>
    /\ scored = NoneVal
    /\ g = NewG
    /\ request = NewRequestAttrs
    /\ pre_ret = NoneVal
    /\ result = NoneVal
    /\ call = NoCall
    /\ on_ret = NoneVal
    /\ answers = NoneVal

\* a request arrives with its own flask.g and request object; content_filter
\* is the one plugin with a pre_search hook
NewRequest(queries) ==
    /\ rpc \in {"idle", "done"}
    /\ \E q \in queries : query' = q
    /\ rpc' = "pre_search"
    /\ hooks' = <<"content_filter">>
    /\ scored' = NoneVal
    /\ g' = NewG
    /\ request' = NewRequestAttrs
    /\ pre_ret' = NoneVal
    /\ result' = NoneVal
    /\ call' = NoCall
    /\ on_ret' = NoneVal
    /\ answers' = NoneVal
    /\ UNCHANGED <<loaderVars, scoreVars, rulesVars, limiterVars, overviewVars>>

\* a request arrives while the plugins of `order` are active, their
\* pre_search hooks to run in that order
NewRequestWith(queries, orders) ==
    /\ rpc \in {"idle", "done"}
    /\ \E q \in queries : query' = q
    /\ \E order \in orders : hooks' = order
    /\ rpc' = "pre_search"
    /\ scored' = NoneVal
    /\ g' = NewG
    /\ request' = NewRequestAttrs
    /\ pre_ret' = NoneVal
    /\ result' = NoneVal
    /\ call' = NoCall
    /\ on_ret' = NoneVal
    /\ answers' = NoneVal
    /\ UNCHANGED <<loaderVars, scoreVars, rulesVars, limiterVars, overviewVars>>

HardBlockedAbove80(risk) == risk > 80

\* the test of pre_search that stops the search
HardBlocked(risk) == risk >= 80

\* where the request goes when a pre_search hook has returned `ret`: to the
\* next hook, to the search, or past it when a hook returned False
AfterHook(ret) ==
    IF ~ret THEN "post_search" ELSE IF Tail(hooks) = <<>> THEN "search" ELSE "pre_search"

PreSearch ==
    /\ rpc = "pre_search"
    /\ hooks # <<>> /\ Head(hooks) = "content_filter"
    /\ LET q == Strip(query)
           v == ScoreQuery(q)
       IN  IF q = <<>>
           THEN /\ pre_ret' = Some(TRUE)
                /\ rpc' = AfterHook(TRUE)
                /\ UNCHANGED <<g, request, scored>>
           ELSE IF HardBlocked(v.risk)
           THEN /\ g' = [g EXCEPT !.risk_score = Some(v.risk),
                                  !.risk_label = Some(v.label),
                                  !.content_blocked = Some(TRUE)]
                /\ request' = [blocked_message |-> Some(v.message),
                               blocked_hotline |-> Some(v.hotline),
                               blocked_label |-> Some(v.label)]
                /\ scored' = Some(q)
                /\ pre_ret' = Some(FALSE)
                /\ rpc' = AfterHook(FALSE)
           ELSE /\ g' = [g EXCEPT !.risk_score = Some(v.risk),
                                  !.risk_label = Some(v.label)]
                /\ scored' = Some(q)
                /\ pre_ret' = Some(TRUE)
                /\ rpc' = AfterHook(TRUE)
                /\ UNCHANGED request
    /\ hooks' = Tail(hooks)
    /\ UNCHANGED <<query, result, call, on_ret, answers>>
    /\ UNCHANGED <<loaderVars, scoreVars, rulesVars, limiterVars, overviewVars>>

\* what pre_search of spell_check replaces the query by, if anything: q is
\* the stripped query, `off` whether the request has spell=off, `outcome` the
\* list search_autocomplete returned, or NoneVal when it raised
SpellCorrection(q, off, outcome, attrs) ==
    IF q = <<>> \/ Len(q) < 3 THEN NoneVal
    ELSE IF off THEN NoneVal
    ELSE IF GetAttr(attrs.content_blocked, FALSE) THEN NoneVal
    ELSE IF outcome = NoneVal THEN NoneVal
    ELSE IF outcome[1] = <<>> THEN NoneVal
    ELSE IF \E k \in 1..Len(outcome[1]) : Norm(outcome[1][k]) = Norm(q) THEN NoneVal
    ELSE LET correction == TryWordCorrection(q, outcome[1])
         IN  IF correction # NoneVal /\ correction[1] # <<>> /\ Norm(correction[1]) # Norm(q)
             THEN correction
             ELSE NoneVal

\* pre_search of spell_check; it returns True on every path
SpellCheckPreSearch(outcomes) ==
    /\ rpc = "pre_search"
    /\ hooks # <<>> /\ Head(hooks) = "spell_check"
    /\ \E off \in BOOLEAN, outcome \in outcomes :
          LET q == Strip(query)
              correction == SpellCorrection(q, off, outcome, g)
          IN  IF correction = NoneVal
              THEN UNCHANGED <<query, g>>
              ELSE /\ g' = [g EXCEPT !.spell_original = Some(q),
                                     !.spell_corrected = correction]
                   /\ query' = correction[1]
    /\ rpc' = AfterHook(TRUE)
    /\ hooks' = Tail(hooks)
    /\ UNCHANGED <<scored, request, pre_ret, result, call, on_ret, answers>>
    /\ UNCHANGED <<loaderVars, scoreVars, rulesVars, limiterVars, overviewVars>>

\* on_result up to the call of _is_domain_blocked(host), and the part of that
\* call before its loop
OnResultBegin(results) ==
    /\ rpc = "search"
    /\ \E res \in results :
        LET host == ExtractHost(UrlOf(res))
            parts == Split(host, <<".">>)
            frame == [NoCall EXCEPT !.host = host, !.published_before = Published]
        IN  /\ result' = Some(res)
            /\ IF host = <<>> \/ SuffixStarts(parts) = {}
               THEN /\ call' = [frame EXCEPT !.blocked = Some(FALSE),
                                             !.ready_at_return = blocklist_ready]
                    /\ rpc' = "on_result_tail"
               ELSE /\ call' = [frame EXCEPT !.parts = parts, !.i = 0]
                    /\ rpc' = "domain_loop"
    /\ on_ret' = NoneVal
    /\ UNCHANGED <<hooks, query, scored, g, request, pre_ret, answers>>
    /\ UNCHANGED <<loaderVars, scoreVars, rulesVars, limiterVars, overviewVars>>

\* one turn of the loop of _is_domain_blocked: one read of _blocked_domains
DomainLoop ==
    /\ rpc = "domain_loop"
    /\ ~WaitsForLoader(blocklist_ready)
    /\ LET frame == [call EXCEPT !.seen = @ \cup {blocked_domains}]
       IN  IF Suffix(call.parts, call.i) \in blocked_domains
           THEN /\ call' = [frame EXCEPT !.blocked = Some(TRUE),
                                         !.ready_at_return = blocklist_ready]
                /\ on_ret' = Some(FALSE)
                /\ rpc' = "returned"
           ELSE IF call.i + 1 \in SuffixStarts(call.parts)
           THEN /\ call' = [frame EXCEPT !.i = @ + 1]
                /\ UNCHANGED <<on_ret, rpc>>
           ELSE /\ call' = [frame EXCEPT !.blocked = Some(FALSE),
                                         !.ready_at_return = blocklist_ready]
                /\ rpc' = "on_result_tail"
                /\ UNCHANGED on_ret
    /\ UNCHANGED <<hooks, query, scored, g, request, pre_ret, result, answers>>
    /\ UNCHANGED <<loaderVars, scoreVars, rulesVars, limiterVars, overviewVars>>

\* the rest of on_result
OnResultEnd ==
    /\ rpc = "on_result_tail"
    /\ on_ret' = Some(OnResultTail(result[1], GetAttr(g.risk_score, 0)))
    /\ rpc' = "returned"
    /\ UNCHANGED <<hooks, query, scored, g, request, pre_ret, result, call, answers>>
    /\ UNCHANGED <<loaderVars, scoreVars, rulesVars, limiterVars, overviewVars>>

\* on_result has returned: its frame is gone and the caller goes on to the
\* next result of the search, if any
NextResult ==
    /\ rpc = "returned"
    /\ rpc' = "search"
    /\ result' = NoneVal
    /\ call' = NoCall
    /\ on_ret' = NoneVal
    /\ UNCHANGED <<hooks, query, scored, g, request, pre_ret, answers>>
    /\ UNCHANGED <<loaderVars, scoreVars, rulesVars, limiterVars, overviewVars>>

\* " ".join(parts) of post_search, the parts kept apart
AnswerText(message, hotline) ==
    IF hotline # "" THEN <<message, " ", hotline>> ELSE <<message>>

PostSearch ==
    /\ rpc \in {"search", "post_search"}
    /\ answers' =
          Some(IF request.blocked_message = NoneVal \/ request.blocked_message = Some("")
               THEN <<>>
               ELSE <<[answer |-> AnswerText(request.blocked_message[1],
                                             GetAttr(request.blocked_hotline, ""))]>>)
    /\ rpc' = "done"
    /\ UNCHANGED <<hooks, query, scored, g, request, pre_ret, result, call, on_ret>>
    /\ UNCHANGED <<loaderVars, scoreVars, rulesVars, limiterVars, overviewVars>>

(***************************************************************************)
(* Calls of the rate limiter on one bucket dictionary, and the clock.      *)
(***************************************************************************)
LimiterInit ==
    /\ now = 0
    /\ buckets = [ip \in Ips |-> <<>>]
    /\ admitted = [ip \in Ips |-> <<>>]
    /\ limited = NoneVal

\* _check_limit(buckets, ip, Limit, Window), or _is_rate_limited(ip)
CheckLimitCall(ip) ==
    /\ LET r == CheckLimit(buckets[ip], now, Limit, Window)
       IN  /\ buckets' = [buckets EXCEPT ![ip] = r.bucket]
           /\ limited' = Some([ip |-> ip, ret |-> r.limited])
           /\ admitted' = IF r.limited THEN admitted
                          ELSE [admitted EXCEPT ![ip] = Append(@, now)]
    /\ UNCHANGED now
    /\ UNCHANGED <<loaderVars, requestVars, scoreVars, rulesVars, overviewVars>>

\* time passes
Tick ==
    /\ now < MaxTime
    /\ now' = now + 1
    /\ UNCHANGED <<buckets, admitted, limited>>
    /\ UNCHANGED <<loaderVars, requestVars, scoreVars, rulesVars, overviewVars>>

(***************************************************************************)
(* The endpoint /api/ai-overview: the view function _ai_overview, and the  *)
(* generator it returns, which runs while the response is streamed.        *)
(***************************************************************************)
NoTrace == [lookup |-> FALSE, provider |-> FALSE, write |-> FALSE]

OverviewInit ==
    /\ apc = "idle"
    /\ areq = NoneVal
    /\ aresp = NoneVal
    /\ trace = NoTrace
    /\ response_cache = <<>>

\* a POST arrives with `q` in its body from the address ip
OverviewRequest(queries, ips) ==
    /\ apc \in {"idle", "responded"}
    /\ \E q \in queries, ip \in ips : areq' = Some([q |-> q, ip |-> ip])
    /\ aresp' = NoneVal
    /\ trace' = NoTrace
    /\ apc' = "view"
    /\ UNCHANGED response_cache
    /\ UNCHANGED <<loaderVars, requestVars, scoreVars, rulesVars, limiterVars>>

\* _ai_overview up to its return; its limiter is _is_rate_limited, on the
\* buckets of the endpoint (`admitted` and `limited` keep the history of the
\* calls of CheckLimitCall only)
AiOverview ==
    /\ apc = "view"
    /\ LET q == Strip(areq[1].q)
           client_ip == areq[1].ip
           r == CheckLimit(buckets[client_ip], now, Limit, Window)
           cache_key == Strip(Lower(q))
           c == GetCached(response_cache, cache_key, now)
       IN  IF q = <<>>
           THEN /\ aresp' = Some([status |-> 400, error |-> "No query provided"])
                /\ apc' = "responded"
                /\ UNCHANGED <<trace, response_cache, limiterVars>>
           ELSE
           /\ buckets' = [buckets EXCEPT ![client_ip] = r.bucket]
           /\ UNCHANGED <<now, admitted, limited>>
           /\ IF r.limited
              THEN /\ aresp' = Some([status |-> 429,
                                     error |-> "Rate limit exceeded. Please slow down."])
                   /\ apc' = "responded"
                   /\ UNCHANGED <<trace, response_cache>>
              ELSE IF OverviewBlocked(ScoreQuery(q).risk)
              THEN /\ aresp' = Some([status |-> 403, error |-> "blocked"])
                   /\ apc' = "responded"
                   /\ UNCHANGED <<trace, response_cache>>
              ELSE /\ trace' = [trace EXCEPT !.lookup = TRUE]
                   /\ response_cache' = c.cache
                   /\ IF Truthy(c.text)
                      THEN /\ aresp' = Some([status |-> 200, replay |-> c.text[1]])
                           /\ apc' = "responded"
                      ELSE /\ aresp' = Some([status |-> 200, stream |-> <<>>])
                           /\ apc' = "generate"
    /\ UNCHANGED areq
    /\ UNCHANGED <<loaderVars, requestVars, scoreVars, rulesVars>>

\* generate(): the provider streams full_response and the stream completes
\* or breaks off; a complete, non-empty response is cached
Generate(texts) ==
    /\ apc = "generate"
    /\ \E full_response \in texts, completed \in BOOLEAN :
          /\ aresp' = Some([status |-> 200, stream |-> full_response])
          /\ IF completed /\ full_response # <<>>
             THEN /\ response_cache' =
                        PutCache(response_cache, Strip(Lower(Strip(areq[1].q))),
                                 full_response, now)
                  /\ trace' = [trace EXCEPT !.provider = TRUE, !.write = TRUE]
             ELSE /\ trace' = [trace EXCEPT !.provider = TRUE]
                  /\ UNCHANGED response_cache
    /\ apc' = "responded"
    /\ UNCHANGED areq
    /\ UNCHANGED <<loaderVars, requestVars, scoreVars, rulesVars, limiterVars>>

(***************************************************************************)
(* A direct call of _score_query.                                          *)
(***************************************************************************)
ScoreInit ==
    /\ score_arg = <<>>
    /\ score_ret = NoneVal

\* a caller passes `arg`
ScoreCall(args) ==
    /\ \E q \in args : score_arg = q
    /\ score_ret = NoneVal

Score ==
    /\ score_ret = NoneVal
    /\ score_ret' = Some(ScoreQuery(score_arg))
    /\ UNCHANGED score_arg
    /\ UNCHANGED <<loaderVars, requestVars, rulesVars, limiterVars, overviewVars>>

(***************************************************************************)
(* The inputs the specifications draw.                                     *)
(***************************************************************************)
\* the words of `words` numbered by ws, joined by single spaces
RECURSIVE WordsToQuery(_, _)
WordsToQuery(words, ws) ==
    IF ws = <<>> THEN <<>>
    ELSE IF Len(ws) = 1 THEN words[ws[1]]
    ELSE words[ws[1]] \o <<" ">> \o WordsToQuery(words, Tail(ws))

\* every query of at most n words of `words`
QueriesOf(words, n) ==
    {WordsToQuery(words, ws) : ws \in UNION {[1..k -> 1..Len(words)] : k \in 0..n}}

\* the empty word puts leading, trailing and doubled spaces into the queries
QueryWords ==
    << <<>>, <<"w","h","a","t"," ","i","s">>, <<"G","u","n","s">>, <<"p","o","r","n">>, <<"k","e","y","g","e","n">>, <<"c","r","o","x","y">>, <<"c","s","a","m">>,
       <<"a","n","s","w","e","r"," ","k","e","y">>, <<"p","u","p","p","i","e","s">> >>

Queries == QueriesOf(QueryWords, MaxWords)

\* every term of every category, alone and after an educational prefix
CategoryTerms ==
    UNION {{CATEGORIES[c].terms[t] : t \in 1..Len(CATEGORIES[c].terms)} :
              c \in 1..Len(CATEGORIES)}

TermQueries == CategoryTerms \cup {<<"w","h","a","t"," ","i","s"," ">> \o term : term \in CategoryTerms}

FilterWords ==
    << <<>>, <<"w","h","a","t"," ","i","s">>, <<"G","u","n","s">>, <<"c","s","a","m">>, <<"c","r","o","x","y">>, <<"a","n","s","w","e","r"," ","k","e","y">> >>

FilterQueries == QueriesOf(FilterWords, MaxFilterWords)

\* a weapons query in "history of X" phrasing
ScenarioQueries == {<<"h","i","s","t","o","r","y"," ","o","f"," ","g","u","n","s"," ","i","n"," ","a","m","e","r","i","c","a">>}

FilterResults ==
    {[title |-> t, url |-> u, content |-> c] :
        t \in {NoneVal, Some(<<"G","u","n"," ","S","h","o","p">>)},
        u \in {NoneVal, Some(<<>>), Some(<<"p","e","t","s",".","o","r","g","/","a">>), Some(<<"h","t","t","p","s",":","/","/","p","e","t","s",".","o","r","g","/">>),
               Some(<<"h","t","t","p","s",":","/","/","p","e","t","s",".","o","r","g","/","T","i","t","l","e">>), Some(<<"h","t","t","p","s",":","/","/","p","e","t","s",".","o","r","g","/","k","e","y","g","e","n">>),
               Some(<<"h","t","t","p",":","/","/","x",".","E","v","i","l",".","e","x",".","c","o","m",":","8","0","/">>), Some(<<"h","t","t","p",":","/","/","l","o","c","a","l","h","o","s","t","/","a">>)},
        c \in {NoneVal, Some(<<"f","r","e","e"," ","k","e","y","g","e","n">>)}}
    \cup {[url |-> Some(<<"h","t","t","p","s",":","/","/","p","e","t","s",".","o","r","g","/">>)],
          [title |-> Some(<<"a","n","s","w","e","r"," ","k","e","y">>), url |-> Some(<<"h","t","t","p","s",":","/","/","p","e","t","s",".","o","r","g","/">>)],
          [url |-> Some(<<"h","t","t","p",":","/","/","e","x",".","c","o","m","/">>)],
          [url |-> Some(<<"h","t","t","p",":","/","/","x",".","l","o","c","a","l","h","o","s","t","/">>)],
          [url |-> Some(<<"e","v","i","l",".","e","x",".","c","o","m","/","a">>)],
          [k \in {} |-> NoneVal],
          [title |-> Some(<<>>), content |-> Some(<<"p","u","p","p","i","e","s">>)],
          [url |-> Some(<<"h","t","t","p","s",":","/","/","p","e","t","s",".","o","r","g","/">>), img_src |-> Some(<<"/","/","i",".","o","r","g","/","g","u","n","s",".","p","n","g">>),
           thumbnail |-> NoneVal, parsed_url |-> NoneVal]}

LoaderQueries == {<<"p","u","p","p","i","e","s">>, <<"k","e","y","g","e","n">>}

LoaderResults ==
    {[url |-> u] :
        u \in {Some(<<"h","t","t","p",":","/","/","e","v","i","l",".","e","x",".","c","o","m","/","a">>), Some(<<"h","t","t","p",":","/","/","l","o","c","a","l","h","o","s","t","/","a">>)}}

(***************************************************************************)
(* Specifications.                                                         *)
(***************************************************************************)
\* the loader thread running beside request handling
Init == LoaderInit /\ RequestInit /\ ScoreInit /\ RulesInit /\ LimiterInit /\ OverviewInit

Next ==
    \/ Loader
    \/ NewRequest(LoaderQueries)
    \/ PreSearch
    \/ OnResultBegin(LoaderResults)
    \/ DomainLoop
    \/ OnResultEnd
    \/ NextResult
    \/ PostSearch

Spec == Init /\ [][Next]_vars

\* request handling before the load and after a complete load
InitFilter == (LoaderInit \/ LoaderLoaded) /\ RequestInit /\ ScoreInit /\ RulesInit /\ LimiterInit /\ OverviewInit

NextFilter ==
    \/ NewRequest(FilterQueries \cup ScenarioQueries)
    \/ PreSearch
    \/ OnResultBegin(FilterResults)
    \/ DomainLoop
    \/ OnResultEnd
    \/ NextResult
    \/ PostSearch

SpecFilter == InitFilter /\ [][NextFilter]_vars

\* the loader thread and its workers under fair scheduling
SpecLive == Init /\ [][Loader]_vars /\ WF_vars(Loader)

\* the domain check of a request scheduled fairly beside a loader that is not,
\* and so may stop for ever at any point
NoWaitQueries == {<<"p","u","p","p","i","e","s">>}

NoWaitResults == {[url |-> Some(<<"h","t","t","p",":","/","/","e","v","i","l",".","e","x",".","c","o","m","/","a">>)]}

NextNoWait ==
    \/ Loader
    \/ NewRequest(NoWaitQueries)
    \/ PreSearch
    \/ OnResultBegin(NoWaitResults)
    \/ DomainLoop
    \/ OnResultEnd
    \/ NextResult
    \/ PostSearch

SpecNoWait == Init /\ [][NextNoWait]_vars /\ WF_vars(DomainLoop)

\* _score_query as a function of its argument
InitScore == LoaderInit /\ RequestInit /\ ScoreCall(Queries \cup TermQueries) /\ RulesInit /\ LimiterInit /\ OverviewInit

NextScore == Score

SpecScore == InitScore /\ [][NextScore]_vars

\* requests for every category term, plain and in educational phrasing, with
\* results that match rules of weight 55, 60, 80 and 90, or none
MonotoneResults ==
    {[title |-> Some(<<"p","u","p","p","i","e","s">>), url |-> Some(<<"h","t","t","p","s",":","/","/","p","e","t","s",".","o","r","g","/">>)],
     [title |-> Some(<<"a","n","s","w","e","r"," ","k","e","y">>), url |-> Some(<<"h","t","t","p","s",":","/","/","p","e","t","s",".","o","r","g","/">>)],
     [title |-> Some(<<"f","r","e","e"," ","k","e","y","g","e","n">>), url |-> Some(<<"h","t","t","p","s",":","/","/","p","e","t","s",".","o","r","g","/">>)],
     [title |-> Some(<<"c","r","o","x","y">>), url |-> Some(<<"h","t","t","p","s",":","/","/","p","e","t","s",".","o","r","g","/">>)],
     [title |-> Some(<<"G","u","n"," ","S","h","o","p">>), url |-> NoneVal],
     [url |-> Some(<<"h","t","t","p",":","/","/","e","v","i","l",".","e","x",".","c","o","m","/","a">>)],
     [k \in {} |-> NoneVal]}

InitMonotone == LoaderLoaded /\ RequestInit /\ ScoreInit /\ RulesInit /\ LimiterInit /\ OverviewInit

NextMonotone ==
    \/ NewRequest(TermQueries \cup ScenarioQueries)
    \/ PreSearch
    \/ OnResultBegin(MonotoneResults)
    \/ DomainLoop
    \/ OnResultEnd
    \/ NextResult
    \/ PostSearch

SpecMonotone == InitMonotone /\ [][NextMonotone]_vars

\* requests while content_filter and spell_check are both active, their
\* pre_search hooks run in either order
HookOrders == {<<"content_filter", "spell_check">>, <<"spell_check", "content_filter">>}

HookQueries ==
    {<<>>, <<"a","b">>, <<"p","u","p","p","i","e","s">>, <<"p","u","p","i","e","s">>, <<" ","g","u","n","z"," ","s","h","o","p"," ">>, <<"G","u","n","s">>, <<"k","e","y","g","e","n">>,
     <<"k","e","y","g","e","m">>, <<"w","h","a","t"," ","i","s"," ","k","e","y","g","e","n">>, <<"a","n","w","s","e","r"," ","k","e","y">>}

\* what search_autocomplete("brave", query, "en") does: it raises (NoneVal)
\* or returns a list of suggestions
AutocompleteOutcomes ==
    {NoneVal,
     Some(<<>>),
     Some(<< <<"g","u","n","z"," ","s","h","o","p">> >>),
     Some(<< <<"g","u","n","s"," ","s","h","o","p">> >>),
     Some(<< <<"g","u","n","s"," ","s","h","o","p">>, <<"G","u","n","s"," "," ","S","h","o","p">> >>),
     Some(<< <<"g","u","n","s"," ","s","t","o","r","e">>, <<"g","u","n","s"," ","s","t","o","r","e">> >>),
     Some(<< <<"k","i","t","t","e","n","s">>, <<"p","u","p","p","i","e","s">>, <<"p","u","p","p","i","e","s">> >>),
     Some(<< <<"k","e","y","g","e","n">>, <<"K","e","y","g","e","n">> >>),
     Some(<< <<"a","n","s","w","e","r"," ","k","e","y">>, <<"a","n","s","w","e","r"," ","k","e","y","s">>, <<"a","n","s","w","e","r"," ","k","e","y">> >>)}

HookResults ==
    {[title |-> Some(<<"G","u","n"," ","S","h","o","p">>), url |-> Some(<<"h","t","t","p","s",":","/","/","p","e","t","s",".","o","r","g","/">>)],
     [title |-> Some(<<"p","u","p","p","i","e","s">>), url |-> Some(<<"h","t","t","p",":","/","/","e","v","i","l",".","e","x",".","c","o","m","/","a">>)],
     [title |-> Some(<<"f","r","e","e"," ","k","e","y","g","e","n">>), url |-> Some(<<"h","t","t","p","s",":","/","/","p","e","t","s",".","o","r","g","/">>)],
     [url |-> Some(<<"h","t","t","p","s",":","/","/","p","e","t","s",".","o","r","g","/">>)]}

InitHooks == LoaderLoaded /\ RequestInit /\ ScoreInit /\ RulesInit /\ LimiterInit /\ OverviewInit

NextHooks ==
    \/ NewRequestWith(HookQueries, HookOrders)
    \/ PreSearch
    \/ SpellCheckPreSearch(AutocompleteOutcomes)
    \/ OnResultBegin(HookResults)
    \/ DomainLoop
    \/ OnResultEnd
    \/ NextResult
    \/ PostSearch

SpecHooks == InitHooks /\ [][NextHooks]_vars

\* calls of the limiter for the keys as time passes
NextLimiter ==
    \/ \E ip \in Ips : CheckLimitCall(ip)
    \/ Tick

SpecLimiter == Init /\ [][NextLimiter]_vars

\* requests to the AI overview endpoint as time passes
OverviewQueries ==
    {<<>>, <<"C","a","t"," ">>, <<"c","a","t">>, <<"w","h","a","t"," ","i","s"," ","k","e","y","g","e","n">>, <<"K","e","y","g","e","n"," ">>}

OverviewIps == {"10.0.0.1"}

ProviderTexts == {<<>>, <<"s">>}

NextOverview ==
    \/ OverviewRequest(OverviewQueries, OverviewIps)
    \/ AiOverview
    \/ Generate(ProviderTexts)
    \/ Tick

SpecOverview == Init /\ [][NextOverview]_vars

(***************************************************************************)
(* Properties.                                                             *)
(***************************************************************************)
\* the rules whose pattern matches the lowercased text
MatchedRules(text) ==
    {k \in 1..Len(BLOCK_RULES) : Search(BLOCK_RULES[k].pattern, Lower(text))}

WeightsOf(matched) == {BLOCK_RULES[k].risk : k \in matched}

MatchedWeights(text) == WeightsOf(MatchedRules(text))

\* the highest weight of a non-empty set of weights
Highest(weights) == CHOOSE w \in weights : \A o \in weights : o <= w

\* the first rule, in compiled order, among the rules of `matched` of weight w
FirstOfWeight(matched, w) ==
    CHOOSE k \in matched :
        /\ BLOCK_RULES[k].risk = w
        /\ \A j \in matched : BLOCK_RULES[j].risk = w => k <= j

\* the request's query as pre_search scores it, and the risk on_result reads
ScoredQuery == Strip(query)
RequestRisk == GetAttr(g.risk_score, 0)

\* the union of what the fetches of the load returned
AllFetched == UNION {fetch[s].ret : s \in Sources}

\* C1: for a non-empty query, pre_search returns False exactly when the score
\* of the query (stripped, as pre_search passes it to _score_query) is at
\* least 80; then the search is not executed and post_search returns the one
\* answer "message hotline" (the message alone when the hotline is empty);
\* below 80 pre_search returns True and post_search returns no answer.
C1_HardBlockAtRisk80 ==
    /\ (query # <<>> /\ rpc \in {"search", "post_search"} /\ result = NoneVal) =>
          pre_ret = Some(~(ScoreQuery(ScoredQuery).risk >= 80))
    /\ pre_ret = Some(FALSE) =>
          rpc \in {"post_search", "done"} /\ result = NoneVal /\ on_ret = NoneVal
    /\ (query # <<>> /\ rpc = "done") =>
          LET verdict == ScoreQuery(ScoredQuery) IN
          /\ pre_ret = Some(~(verdict.risk >= 80))
          /\ answers =
                Some(IF verdict.risk < 80 THEN <<>>
                     ELSE IF verdict.hotline = ""
                     THEN <<[answer |-> <<verdict.message>>]>>
                     ELSE <<[answer |-> <<verdict.message, " ", verdict.hotline>>]>>)

\* a blocked query whose category has a hotline was answered by post_search
C1_Witness ==
    /\ pre_ret = Some(FALSE)
    /\ answers # NoneVal
    /\ Len(answers[1]) = 1
    /\ Len(answers[1][1].answer) = 3

\* C2 as claimed: a query that matches a rule of a never-reduce category and
\* has educational phrasing scores the highest matched weight, whatever else
\* it matches.
C2_AnyNeverReduceMatchUnmitigated ==
    (score_ret # NoneVal /\ HasEducationalContext(Lower(score_arg))) =>
        LET matched == MatchedRules(score_arg) IN
        (\E k \in matched : BLOCK_RULES[k].cat \in NEVER_REDUCE)
            => score_ret[1].risk = Highest(WeightsOf(matched))

\* C2 amended: a query with educational phrasing whose winning rule (the first
\* rule, in compiled order, among the matched rules of the highest weight) is
\* of a never-reduce category scores that highest weight, whatever else it
\* matches.
C2_WinningNeverReduceUnmitigated ==
    (score_ret # NoneVal /\ HasEducationalContext(Lower(score_arg))) =>
        LET matched == MatchedRules(score_arg)
            top == Highest(WeightsOf(matched))
        IN  (/\ matched # {}
             /\ BLOCK_RULES[FirstOfWeight(matched, top)].cat \in NEVER_REDUCE)
                => score_ret[1].risk = top

\* an educational query won by a never-reduce category that also matches a
\* rule of a category outside the set was scored
C2_Witness ==
    /\ score_ret # NoneVal
    /\ HasEducationalContext(Lower(score_arg))
    /\ MatchedRules(score_arg) # {}
    /\ score_ret[1].cat \in NEVER_REDUCE
    /\ \E k \in MatchedRules(score_arg) : BLOCK_RULES[k].cat \notin NEVER_REDUCE
    /\ score_ret[1].risk = 100

\* C3 as claimed: _is_domain_blocked returns True only once the readiness
\* flag is set, so that it returns False for every host while the flag is
\* unset.
C3_NotBlockedWhileNotReady ==
    call.blocked = Some(TRUE) => call.ready_at_return

\* C4: every value of the global set that a call of _is_domain_blocked reads is
\* the empty pre-load set or the complete merged set of the load, and what the
\* call returns is what it returns on one of these two sets, also when the
\* publication falls between two of its reads.
C4_EmptyOrCompleteSnapshot ==
    /\ \A observed \in call.seen :
          observed = {} \/ (Published /\ observed = AllFetched)
    /\ call.blocked # NoneVal =>
          \/ call.blocked[1] = DomainBlockedIn(call.host, {})
          \/ Published /\ call.blocked[1] = DomainBlockedIn(call.host, AllFetched)

\* a call that read the empty set and then the merged set, and returned the
\* result of the empty set for a host the merged set blocks
C4_Witness ==
    /\ call.seen = {{}, AllFetched}
    /\ AllFetched # {}
    /\ call.blocked = Some(FALSE)
    /\ DomainBlockedIn(call.host, AllFetched)

\* C5 as claimed: a fetch that failed, also after reading some lines, returns
\* the empty set.
C5_FailedFetchContributesNothing ==
    \A s \in Sources :
        (fetch[s].st = "done" /\ fetch[s].failed) => fetch[s].ret = {}

\* C6: under fair scheduling of the loader's threads, whatever sources succeed
\* or fail, the loader eventually has published the merged set and set the
\* readiness flag.
C6_EventuallyReady ==
    <>(blocklist_ready /\ lpc = "done" /\ blocked_domains = AllFetched)

\* the flag is set after a load in which every source failed
C6_Witness ==
    /\ blocklist_ready
    /\ \A s \in Sources : fetch[s].st = "done" /\ fetch[s].failed

\* C7 as claimed: a result whose host equals an entry of the published set is
\* suppressed, whatever the risk of the query.
C7_ExactHostSuppressed ==
    (/\ rpc = "returned"
     /\ call.published_before
     /\ call.host \in blocked_domains)
        => on_ret = Some(FALSE)

\* C7 amended: a result whose host has at least two dot-separated labels and
\* equals an entry of the published set is suppressed, whatever the risk of
\* the query.
C7_ExactDottedHostSuppressed ==
    (/\ rpc = "returned"
     /\ call.published_before
     /\ call.host \in blocked_domains
     /\ Len(Split(call.host, <<".">>)) >= 2)
        => on_ret = Some(FALSE)

\* a result of a query of risk 0 whose host is an entry was suppressed after
\* the publication
C7_Witness ==
    /\ rpc = "returned"
    /\ call.published_before
    /\ call.host \in blocked_domains
    /\ Len(Split(call.host, <<".">>)) >= 2
    /\ RequestRisk = 0
    /\ on_ret = Some(FALSE)

\* C8: when the risk of the query is 0 (also when none was recorded), a result
\* is kept exactly when its host is not domain-blocked and its lowercased URL
\* does not match the unsafe-URL-token pattern, whatever its title, content
\* and other fields hold.
C8_RiskZeroKeepsByUrlOnly ==
    (rpc = "returned" /\ RequestRisk = 0) =>
        on_ret = Some(/\ ~DomainBlockedIn(ExtractHost(UrlOf(result[1])), blocked_domains)
                      /\ ~Search(UNSAFE_URL_TOKENS, Lower(UrlOf(result[1]))))

\* a result whose text matches a rule was kept at risk 0
C8_Witness ==
    /\ rpc = "returned"
    /\ RequestRisk = 0
    /\ on_ret = Some(TRUE)
    /\ MatchedRules(Searchable(result[1])) # {}

\* the threshold of the claim: 0 from risk 60, the risk from 30 to 59, else 80
ClaimedThreshold(risk) == IF risk >= 60 THEN 0 ELSE IF risk >= 30 THEN risk ELSE 80

\* C9 as claimed: a result whose searchable text matches a rule of weight W is
\* suppressed exactly when the threshold of the query's risk is at most W.
C9_SuppressedIffThresholdAtMostWeight ==
    rpc = "returned" =>
        \A k \in MatchedRules(Searchable(result[1])) :
            on_ret = Some(FALSE) <=> ClaimedThreshold(RequestRisk) <= BLOCK_RULES[k].risk

\* C9 amended: a result that passes the domain and the unsafe-URL-token checks
\* and whose searchable text matches a rule, W being the highest weight of the
\* rules it matches, is suppressed exactly when the query's risk is above 0
\* and its threshold is at most W.
C9_SuppressedIffPositiveRiskAndThreshold ==
    (/\ rpc = "returned"
     /\ call.blocked = Some(FALSE)
     /\ ~Search(UNSAFE_URL_TOKENS, Lower(UrlOf(result[1])))) =>
        LET matched == MatchedRules(Searchable(result[1])) IN
        matched # {} =>
            (on_ret = Some(FALSE) <=>
                /\ RequestRisk > 0
                /\ ClaimedThreshold(RequestRisk) <= Highest(WeightsOf(matched)))

\* a result matching only a rule of weight 60 was kept at risk 25, threshold 80
C9_Witness ==
    /\ rpc = "returned"
    /\ RequestRisk = 25
    /\ call.blocked = Some(FALSE)
    /\ MatchedWeights(Searchable(result[1])) = {60}
    /\ on_ret = Some(TRUE)

\* C10 as claimed: a query whose matched rules have the weights 90 and 60
\* scores 90 with the label of the weight-90 rule.
C10_Risk90AndItsLabel ==
    score_ret # NoneVal =>
        LET matched == MatchedRules(score_arg) IN
        WeightsOf(matched) = {60, 90} =>
            /\ score_ret[1].risk = 90
            /\ score_ret[1].label = BLOCK_RULES[FirstOfWeight(matched, 90)].label

\* C10 amended: a query whose matched rules have the weights 90 and 60 gets
\* the label of the first matched weight-90 rule, and the risk 90 unless it
\* has educational phrasing and that rule's category is outside the
\* never-reduce set, when the risk is 90 - 30 = 60.
C10_LabelOfThe90RuleRiskUnlessMitigated ==
    score_ret # NoneVal =>
        LET matched == MatchedRules(score_arg)
            first90 == BLOCK_RULES[FirstOfWeight(matched, 90)]
        IN  WeightsOf(matched) = {60, 90} =>
                /\ score_ret[1].label = first90.label
                /\ score_ret[1].risk =
                      IF /\ HasEducationalContext(Lower(score_arg))
                         /\ first90.cat \notin NEVER_REDUCE
                      THEN 60 ELSE 90

\* a query in which the weight-60 term stands before the weight-90 term was
\* scored 90
C10_Witness ==
    /\ score_arg = <<"k","e","y","g","e","n"," ","G","u","n","s">>
    /\ score_ret # NoneVal
    /\ score_ret[1].risk = 90
    /\ score_ret[1].label = "weapons"

\* C11: when several matched rules share the highest matched weight, the
\* label, message, hotline and category id of the verdict are those of the
\* first of them in compiled order: a later rule of equal weight never
\* replaces an earlier one.
C11_FirstRuleOfTheHighestWeightWins ==
    score_ret # NoneVal =>
        LET matched == MatchedRules(score_arg)
            top == Highest(WeightsOf(matched))
            first == BLOCK_RULES[FirstOfWeight(matched, top)]
        IN  Cardinality({k \in matched : BLOCK_RULES[k].risk = top}) >= 2 =>
                /\ score_ret[1].label = first.label
                /\ score_ret[1].message = first.message
                /\ score_ret[1].hotline = first.hotline
                /\ score_ret[1].cat = first.cat

\* a query matching rules of two categories of the highest weight was scored
\* and got the category declared first
C11_Witness ==
    /\ score_ret # NoneVal
    /\ score_ret[1].cat = "weapons"
    /\ \E k \in MatchedRules(score_arg) :
          BLOCK_RULES[k].risk = 90 /\ BLOCK_RULES[k].cat = "adult_content"

\* C12: when the winning rule's category is outside the never-reduce set, the
\* verdict is that rule's label, message, hotline and category id with the
\* risk max(0, weight - 30) if the query has educational phrasing and the
\* weight itself if not, whether or not the category is marked reducible.
C12_MitigationChangesOnlyTheRisk ==
    score_ret # NoneVal =>
        LET matched == MatchedRules(score_arg)
            top == Highest(WeightsOf(matched))
            win == BLOCK_RULES[FirstOfWeight(matched, top)]
        IN  (matched # {} /\ win.cat \notin NEVER_REDUCE) =>
                score_ret[1] =
                    [risk |-> IF HasEducationalContext(Lower(score_arg))
                              THEN IF top - 30 > 0 THEN top - 30 ELSE 0
                              ELSE top,
                     label |-> win.label, message |-> win.message,
                     hotline |-> win.hotline, cat |-> win.cat]

\* an educational query won by a category that is not marked reducible was
\* scored 30 below the category's weight
C12_Witness ==
    /\ score_ret # NoneVal
    /\ HasEducationalContext(Lower(score_arg))
    /\ score_ret[1].cat = "weapons"
    /\ ~Reducible(score_ret[1].cat)
    /\ score_ret[1].risk = 60
    /\ score_ret[1].label = "weapons"

\* C13: a query that matches no compiled rule gets risk 0 with empty label,
\* message, hotline and category id, with or without educational phrasing.
C13_UnmatchedQueryScoresZero ==
    (score_ret # NoneVal /\ MatchedRules(score_arg) = {}) =>
        score_ret[1] =
            [risk |-> 0, label |-> "", message |-> "", hotline |-> "", cat |-> ""]

\* a query with educational phrasing that matches no rule was scored
C13_Witness ==
    /\ score_ret # NoneVal
    /\ score_arg # <<>>
    /\ HasEducationalContext(Lower(score_arg))
    /\ MatchedRules(score_arg) = {}
    /\ score_ret[1].risk = 0

\* the last n labels of `labels`, joined by dots
LastLabels(labels, n) == Join(SubSeq(labels, Len(labels) - n + 1, Len(labels)), <<".">>)

\* C14: _is_domain_blocked(host) is true exactly when some suffix of at least
\* two of the host's dot-separated labels is in the blocked-domain set: an
\* entry blocks its subdomains and not its parent domain, and the last label
\* alone is never tested.
C14_BlockedIffSuffixOfTwoLabelsListed ==
    call.blocked # NoneVal =>
        call.blocked[1] =
            (\E n \in 2..Len(Split(call.host, <<".">>)) :
                LastLabels(Split(call.host, <<".">>), n) \in blocked_domains)

\* a subdomain of an entry, itself not an entry, was found blocked
C14_Witness ==
    /\ call.blocked = Some(TRUE)
    /\ call.host \notin blocked_domains
    /\ Len(Split(call.host, <<".">>)) = 4

\* a step that leaves the blocked-domain set alone, or is the one bulk
\* replacement: taken at the publish statement, after every fetch has
\* returned, never after an earlier replacement, and storing the union of the
\* per-source results
SingleBulkReplace ==
    /\ blocked_domains' # blocked_domains =>
          /\ lpc = "publish" /\ lpc' = "signal"
          /\ \A s \in Sources : fetch[s].st = "done"
          /\ blocked_domains' = AllFetched
    /\ Published => blocked_domains' = blocked_domains /\ Published'

\* C15: the blocked-domain set is written once per load, by one bulk
\* replacement after every source fetch has returned, and whenever the
\* readiness flag is set the set is the union of the per-source results.
C15_OneBulkReplaceAfterAllFetches ==
    /\ [](blocklist_ready => blocked_domains = AllFetched)
    /\ [][SingleBulkReplace]_vars

\* the flag is set over a non-empty set after a load with a failed fetch
C15_Witness ==
    /\ blocklist_ready
    /\ blocked_domains = AllFetched
    /\ blocked_domains # {}
    /\ \E s \in Sources : fetch[s].failed

\* C16: request handling never waits for the loader: no step of a request
\* writes a variable of the loader, and when the request's thread is scheduled
\* and the loader is not, so that the loader may stop for ever at any point,
\* also before the flag is set, every call of _is_domain_blocked returns and
\* on_result goes on past it.
C16_RequestStepsNeverWait ==
    /\ [][rpc' # rpc => UNCHANGED loaderVars]_vars
    /\ (rpc = "domain_loop") ~> (call.blocked # NoneVal)
    /\ (rpc = "domain_loop") ~> (rpc \in {"returned", "on_result_tail"})

\* on_result has returned for a dotted host while the loader has not taken
\* its first step
C16_Witness ==
    /\ rpc = "returned"
    /\ on_ret # NoneVal
    /\ call.parts # <<>>
    /\ lpc = "submit" /\ submitted = 0
    /\ ~blocklist_ready

\* a query that matches rules of the weapons category only and the
\* "history of X" educational pattern
WeaponsHistoryQuery(q) ==
    /\ Search(EDUCATIONAL_PREFIXES[1], Lower(q))
    /\ MatchedRules(q) # {}
    /\ \A k \in MatchedRules(q) : BLOCK_RULES[k].cat = "weapons"

\* a returned result that passed the domain and the unsafe-URL-token checks
PassedUrlChecks ==
    /\ rpc = "returned"
    /\ call.blocked = Some(FALSE)
    /\ ~Search(UNSAFE_URL_TOKENS, Lower(UrlOf(result[1])))

\* C17 as claimed: a weapons query in "history of X" phrasing gets risk 60,
\* is not hard-blocked, and only rules of weight >= 60 suppress its results.
C17_HistoryQuerySuppressesFromWeight60 ==
    (pre_ret # NoneVal /\ WeaponsHistoryQuery(ScoredQuery)) =>
        /\ pre_ret = Some(TRUE)
        /\ g.risk_score = Some(60)
        /\ PassedUrlChecks =>
              (on_ret = Some(FALSE) <=>
                  \E k \in MatchedRules(Searchable(result[1])) : BLOCK_RULES[k].risk >= 60)

\* C17 amended: a weapons query in "history of X" phrasing gets risk 60, is
\* not hard-blocked, and its results are suppressed with threshold 0: every
\* rule that matches a result suppresses it, whatever the rule's weight.
C17_HistoryQuerySuppressesOnAnyRule ==
    (pre_ret # NoneVal /\ WeaponsHistoryQuery(ScoredQuery)) =>
        /\ pre_ret = Some(TRUE)
        /\ g.risk_score = Some(60)
        /\ PassedUrlChecks =>
              (on_ret = Some(FALSE) <=> MatchedRules(Searchable(result[1])) # {})

\* a result matching only a rule of weight 55 was suppressed for the query
\* "history of guns in america"
C17_Witness ==
    /\ query = <<"h","i","s","t","o","r","y"," ","o","f"," ","g","u","n","s"," ","i","n"," ","a","m","e","r","i","c","a">>
    /\ PassedUrlChecks
    /\ MatchedWeights(Searchable(result[1])) = {55}
    /\ on_ret = Some(FALSE)


\* the result with every absent or None field of on_result's keys set to ""
WithEmptyStrings(res) ==
    [key \in {ResultKeys[k] : k \in 1..Len(ResultKeys)} |->
        IF Get(res, key, NoneVal) = NoneVal THEN Some(<<>>) ELSE res[key]]

\* every field on_result reads is missing, None or ""
AllFieldsBlank(res) ==
    \A k \in 1..Len(ResultKeys) : ~Truthy(Get(res, ResultKeys[k], NoneVal))

\* a result whose URL names a listed host without a scheme
SchemelessListedUrl ==
    /\ rpc = "returned"
    /\ UrlOf(result[1]) = <<"e","v","i","l",".","e","x",".","c","o","m","/","a">>
    /\ <<"e","v","i","l",".","e","x",".","c","o","m">> \in blocked_domains

\* C18: on_result returns a verdict for every result; absent and None fields
\* read as empty strings; a URL without "://" has the empty host, which is
\* not domain-blocked; a result whose fields are all missing or empty is
\* kept whatever the risk of the query.
C18_MissingFieldsNeverSuppress ==
    rpc = "returned" =>
        LET res == result[1] IN
        /\ on_ret \in {Some(TRUE), Some(FALSE)}
        /\ UrlOf(res) = UrlOf(WithEmptyStrings(res))
        /\ Searchable(res) = Searchable(WithEmptyStrings(res))
        /\ on_ret = Some(OnResultTail(WithEmptyStrings(res), RequestRisk))
              \/ call.blocked = Some(TRUE)
        /\ ~Contains(UrlOf(res), <<":","/","/">>) =>
              /\ call.host = <<>>
              /\ call.blocked = Some(FALSE)
        /\ AllFieldsBlank(res) => on_ret = Some(TRUE)
        /\ SchemelessListedUrl => on_ret = Some(TRUE)

\* the result with no field at all was kept for a query of risk 60
C18_Witness ==
    /\ rpc = "returned"
    /\ DOMAIN result[1] = {}
    /\ RequestRisk >= 60
    /\ on_ret = Some(TRUE)


\* how many rules the categories declared before the c-th one contribute
RECURSIVE RulesBefore(_)
RulesBefore(c) ==
    IF c <= 1 THEN 0
    ELSE RulesBefore(c - 1) + Len(CATEGORIES[c - 1].terms)
            + Len(Get(CATEGORIES[c - 1], "patterns", <<>>))

\* the rule at position k carries the fields of the category entry
CarriesCategory(rules, k, entry) ==
    /\ rules[k].risk = entry.risk
    /\ rules[k].label = entry.label
    /\ rules[k].message = entry.message
    /\ rules[k].hotline = Get(entry, "hotline", "")
    /\ rules[k].cat = entry.id

\* categories in declaration order, each one's terms and then its patterns
InDeclarationOrder(rules) ==
    /\ Len(rules) = RulesBefore(Len(CATEGORIES) + 1)
    /\ \A c \in 1..Len(CATEGORIES) :
          LET entry == CATEGORIES[c]
              patterns == Get(entry, "patterns", <<>>)
              base == RulesBefore(c)
          IN  /\ \A t \in 1..Len(entry.terms) :
                    /\ rules[base + t].pattern = TermPattern(entry.terms[t])
                    /\ CarriesCategory(rules, base + t, entry)
              /\ \A p \in 1..Len(patterns) :
                    /\ rules[base + Len(entry.terms) + p].pattern = patterns[p]
                    /\ CarriesCategory(rules, base + Len(entry.terms) + p, entry)

\* C19: the compiled rule list holds, category by category in declaration
\* order, one rule per term and then one per pattern, each with the weight,
\* label, message, hotline and id of its category; it is that list from the
\* start, and no step of scoring or suppression changes it.
C19_RulesInDeclarationOrderAndFixed ==
    /\ [](InDeclarationOrder(block_rules))
    /\ [][block_rules' = block_rules]_vars

\* a query was scored and a result of its search suppressed by a rule, with
\* the rule list holding the patterns of a category after its terms
C19_Witness ==
    /\ PassedUrlChecks
    /\ pre_ret = Some(TRUE)
    /\ RequestRisk > 0
    /\ on_ret = Some(FALSE)
    /\ \E c \in 2..Len(CATEGORIES) :
          /\ Len(CATEGORIES[c].terms) > 0
          /\ "patterns" \in DOMAIN CATEGORIES[c]
          /\ block_rules[RulesBefore(c) + Len(CATEGORIES[c].terms) + 1].pattern
                = CATEGORIES[c].patterns[1]


\* C20: with the weights of the category table, the risk _score_query
\* returns lies in 0..100 and is 0 exactly when no rule matched the query:
\* every weight exceeds the educational reduction, so a mitigated verdict
\* stays positive and on_result applies the rules to the results.
C20_RiskZeroIffNoRuleMatched ==
    /\ \A k \in 1..Len(block_rules) :
          block_rules[k].risk \in (EDUCATIONAL_SCORE_REDUCTION + 1)..100
    /\ score_ret # NoneVal =>
          LET matched == MatchedRules(score_arg)
              risk == score_ret[1].risk
          IN  /\ risk \in 0..100
              /\ risk = 0 <=> matched = {}
              /\ matched # {} => RulesApply(risk)

\* a query matching only the rule of the lowest weight, 55, was scored in
\* educational phrasing and keeps risk 25
C20_Witness ==
    /\ score_ret # NoneVal
    /\ HasEducationalContext(Lower(score_arg))
    /\ MatchedWeights(score_arg) = {55}
    /\ score_ret[1].risk = 25


\* the risks _score_query can return with the category table: 0, a weight,
\* or the mitigated weight of a category outside _NEVER_REDUCE
ReturnableRisks ==
    {0} \cup {CATEGORIES[c].risk : c \in 1..Len(CATEGORIES)}
        \cup {Max(0, CATEGORIES[c].risk - EDUCATIONAL_SCORE_REDUCTION) :
                 c \in {d \in 1..Len(CATEGORIES) : CATEGORIES[d].id \notin NEVER_REDUCE}}

\* the risks among `risks` at which on_result suppresses the result, given
\* the outcome of its domain check
SuppressedAt(res, blocked, risks) ==
    {risk \in risks : blocked \/ ~OnResultTail(res, risk)}

\* C21: for a fixed result and two risks R1 <= R2 that _score_query can
\* return, on_result suppressing the result at R1 implies it suppresses it
\* at R2.
C21_SuppressionGrowsWithRisk ==
    /\ RequestRisk \in ReturnableRisks
    /\ rpc = "returned" =>
          LET suppressed ==
                  SuppressedAt(result[1], call.blocked = Some(TRUE), ReturnableRisks)
          IN  /\ on_ret = Some(RequestRisk \notin suppressed)
              /\ \A R1 \in suppressed :
                    \A R2 \in ReturnableRisks : R1 <= R2 => R2 \in suppressed

\* a result matching only a rule of weight 55 was kept at risk 25; it is
\* suppressed at the higher risks 30 and 60
C21_Witness ==
    /\ rpc = "returned"
    /\ RequestRisk = 25
    /\ on_ret = Some(TRUE)
    /\ MatchedWeights(Searchable(result[1])) = {55}
    /\ ~OnResultTail(result[1], 30)
    /\ ~OnResultTail(result[1], 60)


\* every pre_search hook has returned True and the search runs with `query`
SearchExecutes ==
    rpc \in {"search", "domain_loop", "on_result_tail", "returned"}

\* C22 as claimed: whichever of content_filter and spell_check runs first,
\* the query the search executes is the one _score_query scored, its risk is
\* below 80, and flask.g.risk_score holds the score of that query.
C22_ExecutedQueryIsTheScoredOne ==
    SearchExecutes =>
        /\ Strip(query) # <<>> => scored = Some(Strip(query))
        /\ RequestRisk = ScoreQuery(Strip(query)).risk
        /\ RequestRisk < 80

\* the same when spell_check ran before content_filter
SpellCheckRanFirst == scored = NoneVal \/ g.spell_original = NoneVal \/ scored = g.spell_corrected

ScoredAfterCorrection == SpellCheckRanFirst => C22_ExecutedQueryIsTheScoredOne


\* how many of the admitted calls of a key have their timestamp in `interval`
AdmittedIn(ip, interval) ==
    Cardinality({k \in 1..Len(admitted[ip]) : admitted[ip][k] \in interval})

\* a call that returns True removes expired timestamps from the key's
\* bucket and adds none; no call touches the bucket of another key
RejectedAddsNothingAndKeysApart ==
    \A ip \in Ips :
        CheckLimitCall(ip) =>
            /\ limited'[1].ret =>
                  /\ buckets'[ip] = Fresh(buckets[ip], now - Window)
                  /\ admitted'[ip] = admitted[ip]
            /\ \A other \in Ips \ {ip} :
                  buckets'[other] = buckets[other] /\ admitted'[other] = admitted[other]

\* C23 as claimed: per key, at most Limit admitted calls have timestamps
\* within any interval of Window ticks, the interval [t, t + Window]
\* included; a rejected call adds no timestamp; keys do not affect each other.
C23_AtMostLimitInAnyWindow ==
    /\ [](\A ip \in Ips : \A t \in 0..MaxTime : AdmittedIn(ip, t..(t + Window)) <= Limit)
    /\ [][RejectedAddsNothingAndKeysApart]_vars

\* C23 amended: per key, at most Limit admitted calls have timestamps less
\* than Window apart, that is within an interval (t - Window, t]; a rejected
\* call adds no timestamp; keys do not affect each other.
C23_AtMostLimitInAnyHalfOpenWindow ==
    /\ [](\A ip \in Ips : \A t \in 0..MaxTime :
            AdmittedIn(ip, (t - Window + 1)..t) <= Limit)
    /\ [][RejectedAddsNothingAndKeysApart]_vars

\* a key was just rejected after more than Limit of its calls were admitted
\* over time, while the bucket of another key is still empty
C23_Witness ==
    \E ip \in Ips :
        /\ limited = Some([ip |-> ip, ret |-> TRUE])
        /\ Len(admitted[ip]) > Limit
        /\ \E other \in Ips \ {ip} : buckets[other] = <<>>


\* the endpoint has answered its request, or is streaming the answer
Answered == apc \in {"responded", "generate"}

\* the step gives the request its response status
Answers == aresp = NoneVal /\ aresp' # NoneVal

\* the stripped query of the endpoint's request scores 60 or more
RiskyOverviewQuery == ScoreQuery(Strip(areq[1].q)).risk >= 60

\* the status of a response stays as it was given, for the same request
StatusStays ==
    (aresp # NoneVal /\ aresp' # NoneVal) =>
        (areq' = areq /\ aresp'[1].status = aresp[1].status)

\* the items of the cache, as a set
CacheItems(cache) == {cache[k] : k \in 1..Len(cache)}

\* the step lets no entry into the cache under the cache key of a query of
\* OverviewQueries that scores 60 or more; the cache starts empty
NoRiskyQueryEntersCache ==
    \A item \in CacheItems(response_cache') \ CacheItems(response_cache) :
        \A q \in OverviewQueries :
            Strip(Lower(Strip(q))) = item.key => ScoreQuery(Strip(q)).risk < 60

\* C24 as claimed: a request whose query scores >= 60 is answered 403
\* "blocked" without a cache lookup, a provider call or a cache write; the
\* cache never holds an entry for such a query and none is replayed for it.
C24_RiskyQueryAnswered403 ==
    /\ [][Answers =>
            \/ /\ aresp'[1].status = 403
               /\ aresp'[1].error = "blocked"
               /\ trace' = NoTrace
            \/ ~RiskyOverviewQuery]_vars
    /\ [][StatusStays]_vars
    /\ [](Answered /\ aresp[1].status = 403 => trace = NoTrace)
    /\ [][NoRiskyQueryEntersCache]_vars

\* C24 amended: a request whose query scores >= 60 is answered 429 when the
\* rate limiter rejects its client and 403 "blocked" otherwise, and no other
\* request is answered 403; a request answered 400, 429 or 403 makes no
\* cache lookup, no provider call and no cache write; the cache never holds
\* an entry for a query scoring >= 60 and none is replayed for it.
C24_RiskyQueryRefused ==
    /\ [][Answers =>
            LET status == aresp'[1].status
                rejected == CheckLimit(buckets[areq[1].ip], now, Limit, Window).limited
            IN  /\ areq' = areq
                /\ status = 400 <=> Strip(areq[1].q) = <<>>
                /\ status = 429 <=> (Strip(areq[1].q) # <<>> /\ rejected)
                /\ status \notin {400, 429} =>
                      (RiskyOverviewQuery <=>
                          (status = 403 /\ aresp'[1].error = "blocked"))]_vars
    /\ [][StatusStays]_vars
    /\ [](Answered /\ aresp[1].status \in {400, 429, 403} => trace = NoTrace)
    /\ [][NoRiskyQueryEntersCache]_vars

\* the query "Keygen ", of risk 60, was refused with 403 while the cache
\* holds the summary of an earlier request
C24_Witness ==
    /\ apc = "responded"
    /\ areq[1].q = <<"K","e","y","g","e","n"," ">>
    /\ aresp[1].status = 403
    /\ trace = NoTrace
    /\ response_cache # <<>>

=============================================================================
